---- MODULE Spec2Model ----
(***************************************************************************)
(* ProjectManager / ProjectConfiguration / InMemoryLanguageServiceHost of  *)
(* the JavaScript/TypeScript language server, as a state machine.          *)
(*                                                                         *)
(* Strings that hold paths or URIs are modelled by the sequence that       *)
(* String.split('/') yields: '/root/x.ts' is <<"", "root", "x.ts">>, the   *)
(* empty string is <<"">>, '/root/' is <<"", "root", "">> and              *)
(* 'file:///root/x.ts' is <<"file:", "", "", "root", "x.ts">>.             *)
(***************************************************************************)
EXTENDS Integers, Sequences, FiniteSets, TLC

VARIABLES
    rootPath,        \* ProjectManager.rootPath, as passed to the constructor
    remote,          \* the backing file system the updater fetches from: URI -> content
    configs,         \* ProjectManager.configs: [js, ts] -> (directory -> ProjectConfiguration)
    versions,        \* ProjectManager.versions: URI -> number (shared with every host)
    files,           \* InMemoryFileSystem: URI -> content, or NoContent for a URI known by name only
    overlay,         \* InMemoryFileSystem: URI -> text of an open document
    structure,       \* FileSystemUpdater: the structure fetch, "idle", "inflight" or "done"
    fetches,         \* FileSystemUpdater: URI -> "inflight" or "done" (absent: not being fetched)
    pipes,           \* every Observable built by ensureModuleStructure/ensureOwnFiles/ensureAllFiles
    ensured,         \* the slots ensuredModuleStructure, ensuredOwnFiles, ensuredAllFiles: index into pipes, or 0
    resolutions,     \* every Observable built by resolveReferencedFiles
    referencedFiles, \* ProjectManager.referencedFiles: URI -> index into resolutions
    walks            \* the ensureReferencedFiles invocations

vars == <<rootPath, remote, configs, versions, files, overlay, structure, fetches, pipes,
          ensured, resolutions, referencedFiles, walks>>

----------------------------------------------------------------------------
(* Bounds of the model *)

MaxVersion == 2
MaxProjectVersion == 4
MaxPipes == 3
MaxSubs == 2
MaxResolutions == 3
MaxWalks == 3

----------------------------------------------------------------------------
(* Strings *)

EmptyString == <<"">>

Front(s) == SubSeq(s, 1, Len(s) - 1)

Last(s) == s[Len(s)]

Range(s) == {s[i] : i \in DOMAIN s}

IsPrefix(s, t) == Len(s) <= Len(t) /\ SubSeq(t, 1, Len(s)) = s

\* str.lastIndexOf('/') <= 0: no slash at all, or the only slash is the first character
lastIndexOfSlashLE0(str) == Len(str) = 1 \/ (Len(str) = 2 /\ str[1] = "")

\* the recurring "pos = dir.lastIndexOf('/'); if (pos <= 0) dir = '' else dir = dir.substring(0, pos)"
parentDir(dir) == IF lastIndexOfSlashLE0(dir) THEN EmptyString ELSE Front(dir)

\* str.replace(/\/+$/, ''): drop every trailing slash
RECURSIVE trimTrailingSlashes(_)
trimTrailingSlashes(str) ==
    IF Len(str) > 1 /\ Last(str) = ""
    THEN trimTrailingSlashes(Front(str))
    ELSE str

\* str.includes('/node_modules/')
includesNodeModules(str) == \E i \in 2..(Len(str) - 1) : str[i] = "node_modules"

\* util: a file URI to its path and back (file:// + path)
uri2path(uri) == SubSeq(uri, 3, Len(uri))

path2uri(path) == <<"file:", "">> \o path

\* util: backslashes to slashes; the paths of the model hold no backslash
toUnixPath(path) == path

----------------------------------------------------------------------------
(* File names *)

ConfigFileNames == {"tsconfig.json", "jsconfig.json"}

\* names that start with tsconfig.json or jsconfig.json: what /\/[tj]sconfig\.json/ finds after a slash
ConfigPrefixedNames == ConfigFileNames \cup {"jsconfig.json.bak"}

\* path.posix.extname of the names the model uses
extname(name) ==
    CASE name \in {"w.js", "v.js"} -> ".js"
      [] name \in {"x.ts", "y.ts", "z.ts", "a.ts", "b.ts", "g.d.ts"} -> ".ts"
      [] name \in {"tsconfig.json", "jsconfig.json", "package.json"} -> ".json"
      [] name = "jsconfig.json.bak" -> ".bak"
      [] OTHER -> ""

\* path.posix.basename
basename(path) == Last(path)

\* /\/[tj]sconfig\.json/.test(uri)
matchesConfigPattern(uri) == \E i \in 2..Len(uri) : uri[i] \in ConfigPrefixedNames

----------------------------------------------------------------------------
(* util: classification of a path or URI by its file name (./util is not   *)
(* among the sources; these follow the conventions the design states)      *)

pathOf(str) == IF str[1] = "file:" THEN uri2path(str) ELSE str

isDeclarationFile(str) == basename(str) \in {"g.d.ts"}

isJSTSFile(str) == extname(basename(str)) \in {".js", ".jsx", ".ts", ".tsx"}

isConfigFile(str) == basename(str) \in ConfigFileNames

isPackageJsonFile(str) == basename(str) = "package.json"

----------------------------------------------------------------------------
(* InMemoryFileSystem (./memfs is not among the sources)                   *)

NoContent == "undefined"

EmptyMap == [x \in {} |-> 0]

mapSet(m, k, v) == [x \in DOMAIN m \cup {k} |-> IF x = k THEN v ELSE m[x]]

mapDelete(m, k) == [x \in DOMAIN m \ {k} |-> m[x]]

fsOf(f, o) == [files |-> f, overlay |-> o]

\* InMemoryFileSystem.add: never overrides content by undefined
memfsAdd(f, uri, content) ==
    IF content # NoContent \/ uri \notin DOMAIN f THEN mapSet(f, uri, content) ELSE f

\* InMemoryFileSystem.fileExists: the file is open or known, if only by name (the module
\* resolution of a file finds the files it imports before their content is fetched)
fileExists(fs, path) ==
    LET uri == path2uri(path)
    IN  uri \in DOMAIN fs.overlay \/ uri \in DOMAIN fs.files

\* InMemoryFileSystem.readFile / getContent: the open document first; NoContent when there is none
readFile(fs, path) ==
    LET uri == path2uri(path)
    IN  IF uri \in DOMAIN fs.overlay THEN fs.overlay[uri]
        ELSE IF uri \in DOMAIN fs.files THEN fs.files[uri]
        ELSE NoContent

\* InMemoryFileSystem.uris()
uris(fs) == DOMAIN fs.files

----------------------------------------------------------------------------
(* InMemoryLanguageServiceHost *)

NoHost == [present |-> FALSE, projectVersion |-> 0, filePaths |-> <<>>, complete |-> FALSE]

\* constructor
InMemoryLanguageServiceHost ==
    [present |-> TRUE, projectVersion |-> 1, filePaths |-> <<>>, complete |-> FALSE]

incProjectVersion(host) == [host EXCEPT !.projectVersion = @ + 1]

\* a host that stages a file without telling the compiler
addFileQuietly(host, filePath) == [host EXCEPT !.filePaths = Append(@, filePath)]

\* a host that forgets what it staged before
addFileOnly(host, filePath) ==
    incProjectVersion([host EXCEPT !.filePaths = <<filePath>>])

addFile(host, filePath) ==
    incProjectVersion([host EXCEPT !.filePaths = Append(@, filePath)])

\* a host that bumps the stored version whenever it is asked for it
seedAlways(vs, uri) == mapSet(vs, uri, (IF uri \in DOMAIN vs THEN vs[uri] ELSE 0) + 1)

\* a host that stores 1 whatever version the map holds
seedOne(vs, uri) == mapSet(vs, uri, 1)

\* getScriptVersion's effect on the shared map: an absent (or zero) entry is seeded with 1
seedVersion(vs, uri) == IF uri \in DOMAIN vs /\ vs[uri] # 0 THEN vs ELSE mapSet(vs, uri, 1)

\* this.versions.get(uri) || 0
versionOrZero(vs, uri) == IF uri \in DOMAIN vs THEN vs[uri] ELSE 0

----------------------------------------------------------------------------
(* ProjectConfiguration *)

Kinds == {"js", "ts"}

\* constructor; configContent is "undefined" for a configuration read from a file
ProjectConfiguration(rootFilePath, configFilePath, configContent) ==
    [ rootFilePath      |-> rootFilePath,
      configFilePath    |-> configFilePath,
      configContent     |-> configContent,
      initialized       |-> FALSE,
      ensuredBasicFiles |-> FALSE,
      ensuredAllFiles   |-> FALSE,
      service           |-> FALSE,
      host              |-> NoHost,
      expectedFilePaths |-> {} ]

\* a reset that forgets the host and the service but not that the basic files were ensured
resetKeepingBasic(config) ==
    [config EXCEPT !.initialized = FALSE, !.ensuredAllFiles = FALSE, !.service = FALSE,
                   !.host = NoHost, !.expectedFilePaths = {}]

reset(config) ==
    [config EXCEPT !.initialized = FALSE, !.ensuredBasicFiles = FALSE,
                   !.ensuredAllFiles = FALSE, !.service = FALSE, !.host = NoHost,
                   !.expectedFilePaths = {}]

\* ts.parseConfigFileTextToJson reports an error
parseError(fs, configFilePath) == readFile(fs, configFilePath) \in {"bad", NoContent}

\* ts.parseJsonConfigFileContent(...).fileNames: the files the memfs knows under base that the
\* include patterns match (the fallbacks: **/*.js, **/*.jsx or **/*.ts, **/*.tsx; a read
\* configuration: the compiler's default, TypeScript sources); node_modules is excluded
parsedFileNames(fs, root, config) ==
    LET dir  == parentDir(toUnixPath(config.configFilePath))
        base == IF dir # EmptyString THEN dir ELSE trimTrailingSlashes(root)
        exts == IF config.configContent = "js" THEN {".js", ".jsx"} ELSE {".ts", ".tsx"}
    IN  { uri2path(u) : u \in { v \in uris(fs) :
            /\ IsPrefix(base, Front(uri2path(v)))
            /\ ~includesNodeModules(v)
            /\ extname(basename(v)) \in exts } }

Returned(config) == [threw |-> FALSE, config |-> config]

Threw(config) == [threw |-> TRUE, config |-> config]

\* an init that makes the host before it parses the configuration
initHostFirst(config, fs, root) ==
    IF config.initialized THEN Returned(config)
    ELSE IF config.configContent = "undefined" /\ parseError(fs, config.configFilePath)
    THEN Threw([config EXCEPT !.host = InMemoryLanguageServiceHost])
    ELSE Returned([config EXCEPT
            !.expectedFilePaths = parsedFileNames(fs, root, config),
            !.host = InMemoryLanguageServiceHost,
            !.service = TRUE,
            !.initialized = TRUE])

\* init: parse the configuration, make host and service
init(config, fs, root) ==
    IF config.initialized THEN Returned(config)
    ELSE IF config.configContent = "undefined" /\ parseError(fs, config.configFilePath)
    THEN Threw(config)
    ELSE Returned([config EXCEPT
            !.expectedFilePaths = parsedFileNames(fs, root, config),
            !.host = InMemoryLanguageServiceHost,
            !.service = TRUE,
            !.initialized = TRUE])

ensureConfigFile(config, fs, root) == init(config, fs, root)

\* ts.preProcessFile(contents).importedFiles: the file names a content imports from its directory
importedFiles(contents) ==
    CASE contents = "import a" -> <<"a.ts">>
      [] contents = "import b" -> <<"b.ts">>
      [] contents = "import a, b" -> <<"a.ts", "b.ts">>
      [] OTHER -> <<>>

\* ts.resolveModuleName against the memfs, then path2uri: the imports that resolve to a file
RECURSIVE resolveImports(_, _, _)
resolveImports(fs, dir, names) ==
    IF names = <<>> THEN <<>>
    ELSE LET resolvedFileName == dir \o <<Head(names)>>
         IN  (IF fileExists(fs, resolvedFileName) THEN <<path2uri(resolvedFileName)>> ELSE <<>>)
             \o resolveImports(fs, dir, Tail(names))

\* the source files of the program the language service builds from a set of root files: the
\* root files and every file that one of them imports, directly or not
RECURSIVE programFiles(_, _)
programFiles(fs, paths) ==
    LET imported == UNION { Range(resolveImports(fs, Front(toUnixPath(p)),
                                                 importedFiles(readFile(fs, p)))) : p \in paths }
        more == paths \cup { uri2path(u) : u \in imported }
    IN  IF more = paths THEN paths ELSE programFiles(fs, more)

\* program.getSourceFile(fileName) is defined: the file is staged and the host has a snapshot of
\* it, or such a file imports it
inProgram(config, fs, fileName) ==
    fileName \in programFiles(fs, { p \in Range(config.host.filePaths) : fileExists(fs, p) })

\* a set as a sequence, in a fixed order
RECURSIVE seqOf(_)
seqOf(S) == IF S = {} THEN <<>> ELSE LET x == CHOOSE y \in S : TRUE IN <<x>> \o seqOf(S \ {x})

\* for (const fileName of fileNames) if (!program.getSourceFile(fileName)) host.addFile(fileName),
\* the program being the one obtained before the loop
RECURSIVE addFiles(_, _)
addFiles(host, fileNames) ==
    IF fileNames = <<>> THEN host
    ELSE addFiles(addFile(host, Head(fileNames)), Tail(fileNames))

\* a global ambient-declarations file: a declaration file directly under the workspace root
isGlobalTSFile(str, root) ==
    isDeclarationFile(str) /\ Front(pathOf(str)) = trimTrailingSlashes(root)

\* ensureBasicFiles; program tells whether the language service hands out a program
ensureBasicFiles(config, fs, root, program) ==
    IF config.ensuredBasicFiles THEN Returned(config)
    ELSE LET r == init(config, fs, root)
             c == r.config
             wanted == { uri2path(u) : u \in { v \in uris(fs) :
                            \/ isGlobalTSFile(uri2path(v), root)
                            \/ (isDeclarationFile(uri2path(v))
                                /\ toUnixPath(uri2path(v)) \in c.expectedFilePaths) } }
             missing == { f \in wanted : ~inProgram(c, fs, f) }
         IN  IF r.threw THEN r
             ELSE IF ~program THEN Returned(c)
             ELSE Returned([c EXCEPT !.host = addFiles(@, seqOf(missing)),
                                     !.ensuredBasicFiles = TRUE])

\* an ensureSourceFile that calls ensureConfigFile() first
ensureSourceFileInit(config, fs, filePath, program) ==
    LET r == init(config, fs, rootPath)
        c == r.config
    IN  IF r.threw THEN r
        ELSE IF ~program THEN Returned(c)
        ELSE IF inProgram(c, fs, filePath) THEN Returned(c)
        ELSE Returned([c EXCEPT !.host = addFile(@, filePath)])

\* ensureSourceFile: getProgram() goes through getService(), which throws without a service
\* an ensureSourceFile that stages the file whether the program holds it or not
ensureSourceFileAlways(config, fs, filePath, program) ==
    IF ~config.service THEN Threw(config)
    ELSE IF ~program THEN Returned(config)
    ELSE Returned([config EXCEPT !.host = addFile(@, filePath)])

ensureSourceFile(config, fs, filePath, program) ==
    IF ~config.service THEN Threw(config)
    ELSE IF ~program THEN Returned(config)
    ELSE IF inProgram(config, fs, filePath) THEN Returned(config)
    ELSE Returned([config EXCEPT !.host = addFile(@, filePath)])

\* an ensureAllFiles that stages the files without marking the host complete
ensureAllFilesIncomplete(config, fs, root, program) ==
    IF config.ensuredAllFiles THEN Returned(config)
    ELSE LET r == init(config, fs, root)
             c == r.config
             missing == { f \in c.expectedFilePaths : ~inProgram(c, fs, f) }
         IN  IF r.threw THEN r
             ELSE IF c.host.complete THEN Returned(c)
             ELSE IF ~program THEN Returned(c)
             ELSE Returned([c EXCEPT !.host = addFiles(@, seqOf(missing)),
                                     !.ensuredAllFiles = TRUE])

\* ensureAllFiles
ProjectConfiguration_ensureAllFiles(config, fs, root, program) ==
    IF config.ensuredAllFiles THEN Returned(config)
    ELSE LET r == init(config, fs, root)
             c == r.config
             missing == { f \in c.expectedFilePaths : ~inProgram(c, fs, f) }
         IN  IF r.threw THEN r
             ELSE IF c.host.complete THEN Returned(c)
             ELSE IF ~program THEN Returned(c)
             ELSE Returned([c EXCEPT
                     !.host = [addFiles(@, seqOf(missing)) EXCEPT !.complete = TRUE],
                     !.ensuredAllFiles = TRUE])

----------------------------------------------------------------------------
(* ProjectManager: the router *)

\* constructor: one catch-all fallback configuration per type at the trimmed root
fallbackConfigs(root) ==
    [ configType \in Kinds |->
        ProjectConfiguration(trimTrailingSlashes(root), EmptyString, configType) ]

initialConfigs(root) ==
    [ configType \in Kinds |->
        mapSet(EmptyMap, trimTrailingSlashes(root), fallbackConfigs(root)[configType]) ]

getConfigurationType(filePath) ==
    LET name == basename(filePath)
    IN  IF name = "tsconfig.json" THEN "ts"
        ELSE IF name = "jsconfig.json" THEN "js"
        ELSE IF extname(name) \in {".js", ".jsx"} THEN "js"
        ELSE "ts"

\* the 'add' subscription's filter
addFilter(uri, content) ==
    /\ content # NoContent /\ content # ""
    /\ matchesConfigPattern(uri)
    /\ ~includesNodeModules(uri)

\* the catch-all is left where it is
keepCatchAll(m, root) == m

\* whatever is keyed at the trimmed root is removed
removeRootEntry(m, root) == mapDelete(m, trimTrailingSlashes(root))

\* "Remove catch-all config (if exists)"
removeCatchAll(m, root) ==
    LET trimmedRootPath == trimTrailingSlashes(root)
    IN  IF trimmedRootPath \in DOMAIN m /\ m[trimmedRootPath].configContent # "undefined"
        THEN mapDelete(m, trimmedRootPath)
        ELSE m

\* the 'add' subscription: a configuration file with content makes a new ProjectConfiguration
onAdd(cfgs, root, uri, content) ==
    IF ~addFilter(uri, content) THEN cfgs
    ELSE LET filePath   == uri2path(uri)
             dir        == parentDir(toUnixPath(filePath))
             configType == getConfigurationType(filePath)
             created    == mapSet(cfgs[configType], dir,
                                  ProjectConfiguration(dir, filePath, "undefined"))
         IN  [cfgs EXCEPT ![configType] = removeCatchAll(created, root)]

undefined == [found |-> FALSE, dir |-> EmptyString]

Found(dir) == [found |-> TRUE, dir |-> dir]

\* a lookup that never consults the entry at the root
RECURSIVE climbBelowRoot(_, _, _)
climbBelowRoot(dir, m, trimmedRootPath) ==
    IF dir # EmptyString /\ dir # trimmedRootPath
    THEN IF dir \in DOMAIN m THEN Found(dir) ELSE climbBelowRoot(parentDir(dir), m, trimmedRootPath)
    ELSE undefined

\* a lookup that prefers the entry at the root to the nearest one
RECURSIVE climbRootFirst(_, _, _)
climbRootFirst(dir, m, trimmedRootPath) ==
    IF trimmedRootPath \in DOMAIN m THEN Found(trimmedRootPath)
    ELSE IF dir # EmptyString /\ dir # trimmedRootPath
    THEN IF dir \in DOMAIN m THEN Found(dir) ELSE climbRootFirst(parentDir(dir), m, trimmedRootPath)
    ELSE undefined

\* the while loop of getConfigurationIfExists and the lookup at the root that follows it
RECURSIVE climb(_, _, _)
climb(dir, m, trimmedRootPath) ==
    IF dir # EmptyString /\ dir # trimmedRootPath
    THEN IF dir \in DOMAIN m THEN Found(dir) ELSE climb(parentDir(dir), m, trimmedRootPath)
    ELSE IF trimmedRootPath \in DOMAIN m THEN Found(trimmedRootPath) ELSE undefined

\* the key, in the map of configType, of the configuration returned, or undefined
getConfigurationIfExists(cfgs, root, filePath, configType) ==
    climb(toUnixPath(filePath), cfgs[configType], trimTrailingSlashes(root))

\* for (const config of this.configurations()) config.reset()
resetAll(cfgs) ==
    [ configType \in Kinds |-> [ dir \in DOMAIN cfgs[configType] |-> reset(cfgs[configType][dir]) ] ]

----------------------------------------------------------------------------
(* The state the operations act on, as one record.  tasks holds the        *)
(* notifications of the running synchronous turn that are still to be      *)
(* delivered, first to be delivered first; it is empty between turns.      *)

Cur ==
    [ configs |-> configs, versions |-> versions, files |-> files, overlay |-> overlay,
      structure |-> structure, fetches |-> fetches, pipes |-> pipes, ensured |-> ensured,
      resolutions |-> resolutions, referencedFiles |-> referencedFiles, walks |-> walks,
      tasks |-> <<>>, program |-> TRUE ]

Become(st) ==
    /\ configs' = st.configs
    /\ versions' = st.versions
    /\ files' = st.files
    /\ overlay' = st.overlay
    /\ structure' = st.structure
    /\ fetches' = st.fetches
    /\ pipes' = st.pipes
    /\ ensured' = st.ensured
    /\ resolutions' = st.resolutions
    /\ referencedFiles' = st.referencedFiles
    /\ walks' = st.walks
    /\ UNCHANGED <<rootPath, remote>>

fsIn(st) == fsOf(st.files, st.overlay)

Task(t, i) == [t |-> t, i |-> i, uri |-> EmptyString]

\* a set of indices in increasing order: subscribers are told in the order they subscribed
RECURSIVE ascending(_)
ascending(S) ==
    IF S = {} THEN <<>>
    ELSE LET m == CHOOSE x \in S : \A y \in S : x <= y IN <<m>> \o ascending(S \ {m})

----------------------------------------------------------------------------
(* FileSystemUpdater (./fs is not among the sources): fetches are shared   *)
(* and done once; a failed fetch is forgotten and may be tried again       *)

fetchState(st, uri) == IF uri \in DOMAIN st.fetches THEN st.fetches[uri] ELSE "idle"

\* updater.ensureStructure()
updaterEnsureStructure(st) ==
    IF st.structure = "idle" THEN [st EXCEPT !.structure = "inflight"] ELSE st

\* updater.ensure(uri) for every uri of a set
updaterEnsure(st, wanted) ==
    [st EXCEPT !.fetches =
        [u \in DOMAIN @ \cup wanted |-> IF u \in DOMAIN @ THEN @[u] ELSE "inflight"]]

----------------------------------------------------------------------------
(* ProjectManager: ensureModuleStructure, ensureOwnFiles, ensureAllFiles   *)

Scopes == {"ensuredModuleStructure", "ensuredOwnFiles", "ensuredAllFiles"}

\* the .filter(uri => ...) of each pipeline
scopeFilter(scope, uri) ==
    CASE scope = "ensuredModuleStructure" ->
            isGlobalTSFile(uri, rootPath) \/ isConfigFile(uri) \/ isPackageJsonFile(uri)
      [] scope = "ensuredOwnFiles" ->
            (~includesNodeModules(uri) /\ isJSTSFile(uri)) \/ isConfigFile(uri) \/ isPackageJsonFile(uri)
      [] scope = "ensuredAllFiles" ->
            isJSTSFile(uri) \/ isConfigFile(uri) \/ isPackageJsonFile(uri)

\* a pipeline as built: the structure fetch is asked for, nothing is subscribed yet
\* subs: the callers subscribed, left: the callers that have closed their subscription
newPipe(scope) ==
    [scope |-> scope, state |-> "new", requested |-> {}, subs |-> 0, left |-> 0]

inFlight(pipe) == pipe.state \in {"structure", "fetching"}

\* a body that builds a pipeline at every call
alwaysBuild(st, scope) ==
    LET st1 == updaterEnsureStructure(st)
    IN  [st1 EXCEPT !.pipes = Append(@, newPipe(scope)),
                    !.ensured[scope] = Len(st1.pipes) + 1]

\* a body that hands out the memoized pipeline only once it has completed
buildUnlessDone(st, scope) ==
    IF st.ensured[scope] # 0 /\ st.pipes[st.ensured[scope]].state = "done" THEN st
    ELSE alwaysBuild(st, scope)

\* the body of ensureModuleStructure/ensureOwnFiles/ensureAllFiles: build and memoize unless memoized
getOrBuild(st, scope) ==
    IF st.ensured[scope] # 0 THEN st
    ELSE LET st1 == updaterEnsureStructure(st)
         IN  [st1 EXCEPT !.pipes = Append(@, newPipe(scope)),
                         !.ensured[scope] = Len(st1.pipes) + 1]

\* a connection that asks for the files without waiting for the structure fetch
connectEager(st, i) ==
    IF st.pipes[i].state # "new" THEN st
    ELSE [st EXCEPT !.pipes[i].state = "structure",
                    !.tasks = <<Task("startFetches", i)>> \o @]

\* the first subscription connects the pipeline: it waits for the structure fetch
connect(st, i) ==
    IF st.pipes[i].state # "new" THEN st
    ELSE LET st1 == [st EXCEPT !.pipes[i].state = "structure"]
         IN  IF st1.structure = "done"
             THEN [st1 EXCEPT !.tasks = <<Task("startFetches", i)>> \o @]
             ELSE st1

\* a caller outside the ProjectManager subscribes to the signal it was handed
subscribe(st, i) ==
    IF st.pipes[i].state \in {"done", "failed"} THEN st
    ELSE connect([st EXCEPT !.pipes[i].subs = @ + 1], i)

\* the structure fetch is through: .concat(uris()).filter(...).mergeMap(uri => updater.ensure(uri))
startFetches(st, i) ==
    LET wanted == { u \in uris(fsIn(st)) : scopeFilter(st.pipes[i].scope, u) }
        st1 == updaterEnsure(st, wanted)
        st2 == [st1 EXCEPT !.pipes[i].state = "fetching", !.pipes[i].requested = wanted]
    IN  IF \A u \in wanted : fetchState(st2, u) = "done"
        THEN [st2 EXCEPT !.tasks = <<Task("pipeDone", i)>> \o @]
        ELSE st2

\* the walks (ensureReferencedFiles invocations) subscribed to pipeline i
walksOn(st, i) ==
    ascending({ w \in 1..Len(st.walks) : st.walks[w].state = "module" /\ st.walks[w].on = i })

tasksFor(t, indices) == [n \in DOMAIN indices |-> Task(t, indices[n])]

\* a multicast that closes its connection to the pipeline whenever a subscriber leaves
leaveCancels(st, i) ==
    [st EXCEPT !.pipes[i].subs = @ - 1, !.pipes[i].left = @ + 1,
               !.pipes[i].state = "new", !.pipes[i].requested = {}]

\* refCount(): a subscriber that leaves while another one stays is taken off the count, and the
\* connection to the pipeline stays as it is
leave(st, i) == [st EXCEPT !.pipes[i].subs = @ - 1, !.pipes[i].left = @ + 1]

\* a completion handler that resets no Session and leaves the cache of references as it is
pipeDoneOnly(st, i) ==
    LET st1 == [st EXCEPT !.pipes[i].state = "done", !.pipes[i].subs = 0]
    IN  [st1 EXCEPT !.tasks = tasksFor("walkAfterModule", walksOn(st, i)) \o @]

\* .do(noop, err, complete): the completion handler, then the subscribers hear of it
pipeDone(st, i) ==
    LET st1 == [st EXCEPT !.pipes[i].state = "done", !.pipes[i].subs = 0]
        st2 == IF st.pipes[i].scope = "ensuredModuleStructure"
               THEN [st1 EXCEPT !.configs = resetAll(@), !.referencedFiles = EmptyMap]
               ELSE st1
    IN  [st2 EXCEPT !.tasks = tasksFor("walkAfterModule", walksOn(st, i)) \o @]

\* an error handler that clears the slot only while the slot holds the pipeline that failed
pipeFailIfCurrent(st, i) ==
    LET st1 == [st EXCEPT !.pipes[i].state = "failed", !.pipes[i].subs = 0,
                          !.ensured[st.pipes[i].scope] = IF @ = i THEN 0 ELSE @]
    IN  [st1 EXCEPT !.tasks = tasksFor("walkError", walksOn(st, i)) \o @]

\* an error handler that leaves the slot as it is
pipeFailMemoized(st, i) ==
    LET st1 == [st EXCEPT !.pipes[i].state = "failed", !.pipes[i].subs = 0]
    IN  [st1 EXCEPT !.tasks = tasksFor("walkError", walksOn(st, i)) \o @]

\* .do(noop, err): the slot is cleared, then the subscribers hear of the error
pipeFail(st, i) ==
    LET st1 == [st EXCEPT !.pipes[i].state = "failed", !.pipes[i].subs = 0,
                          !.ensured[st.pipes[i].scope] = 0]
    IN  [st1 EXCEPT !.tasks = tasksFor("walkError", walksOn(st, i)) \o @]

----------------------------------------------------------------------------
(* ProjectManager: resolveReferencedFiles and ensureReferencedFiles        *)

newResolution(uri) == [uri |-> uri, state |-> "new", refs |-> <<>>]

\* the walks subscribed to resolution j
walksOnResolution(st, j) ==
    ascending({ w \in 1..Len(st.walks) : st.walks[w].state = "resolve" /\ st.walks[w].on = j })

\* what a subscriber of a resolution is sent: every referenced URI, then the completion
emissions(w, refs) ==
    [n \in DOMAIN refs |-> [t |-> "emit", i |-> w, uri |-> refs[n]]] \o <<Task("outerComplete", w)>>

\* every subscriber hears of a value before any hears of the next
RECURSIVE broadcast(_, _)
broadcast(ws, refs) ==
    IF refs = <<>> THEN tasksFor("outerComplete", ws)
    ELSE [n \in DOMAIN ws |-> [t |-> "emit", i |-> ws[n], uri |-> Head(refs)]]
         \o broadcast(ws, Tail(refs))

\* .do(noop, err): "Don't cache errors"
resolutionFail(st, j) ==
    LET st1 == [st EXCEPT !.resolutions[j].state = "failed",
                          !.referencedFiles = mapDelete(@, st.resolutions[j].uri)]
    IN  [st1 EXCEPT !.tasks = tasksFor("walkError", walksOnResolution(st, j)) \o @]

\* the file is fetched: the Observable.defer of resolveReferencedFiles
resolutionBody(st, j) ==
    LET uri == st.resolutions[j].uri
        referencingFilePath == uri2path(uri)
        configType == getConfigurationType(referencingFilePath)
        owner == getConfigurationIfExists(st.configs, rootPath, referencingFilePath, configType)
        r == ensureBasicFiles(st.configs[configType][owner.dir], fsIn(st), rootPath, st.program)
        refs == resolveImports(fsIn(st), Front(toUnixPath(referencingFilePath)),
                               importedFiles(readFile(fsIn(st), referencingFilePath)))
    IN  IF ~owner.found \/ r.threw THEN resolutionFail(st, j)
        ELSE [st EXCEPT !.configs[configType][owner.dir] = r.config,
                        !.resolutions[j].state = "done",
                        !.resolutions[j].refs = refs,
                        !.tasks = broadcast(walksOnResolution(st, j), refs) \o @]

\* a resolveReferencedFiles that never looks into the cache
alwaysResolve(st, uri) ==
    LET st1 == updaterEnsure(st, {uri})
    IN  [st1 EXCEPT !.resolutions = Append(@, newResolution(uri)),
                    !.referencedFiles = mapSet(@, uri, Len(st1.resolutions) + 1)]

\* resolveReferencedFiles up to the return: the cached Observable, or a new one that is cached
resolveReferencedFiles(st, uri) ==
    IF uri \in DOMAIN st.referencedFiles THEN st
    ELSE LET st1 == updaterEnsure(st, {uri})
         IN  [st1 EXCEPT !.resolutions = Append(@, newResolution(uri)),
                         !.referencedFiles = mapSet(@, uri, Len(st1.resolutions) + 1)]

\* walk w subscribes to resolution j
subscribeResolution(st, w, j) ==
    LET state == st.resolutions[j].state
    IN  CASE state = "done" ->
                [st EXCEPT !.walks[w].state = "emitting",
                           !.tasks = emissions(w, st.resolutions[j].refs) \o @]
          [] state = "failed" -> [st EXCEPT !.tasks = <<Task("walkError", w)>> \o @]
          [] state = "fetching" -> [st EXCEPT !.walks[w].state = "resolve", !.walks[w].on = j]
          [] state = "new" ->
                LET st1 == [st EXCEPT !.walks[w].state = "resolve", !.walks[w].on = j,
                                      !.resolutions[j].state = "fetching"]
                IN  IF fetchState(st1, st1.resolutions[j].uri) = "done"
                    THEN [st1 EXCEPT !.tasks = <<Task("resolutionBody", j)>> \o @]
                    ELSE st1

\* a walk that resolves the references of its file whatever its depth
walkAfterModuleDeep(st, w) ==
    LET st1 == resolveReferencedFiles(st, st.walks[w].uri)
    IN  subscribeResolution(st1, w, st1.referencedFiles[st.walks[w].uri])

\* the module structure is there: .concat(Observable.defer(() => maxDepth === 0 ? empty : resolve))
walkAfterModule(st, w) ==
    IF st.walks[w].maxDepth = 0
    THEN [st EXCEPT !.walks[w].state = "emitting", !.tasks = <<Task("outerComplete", w)>> \o @]
    ELSE LET st1 == resolveReferencedFiles(st, st.walks[w].uri)
         IN  subscribeResolution(st1, w, st1.referencedFiles[st.walks[w].uri])

\* out is what the returned Observable has emitted: the values that leave its mergeMap
newWalk(uri, maxDepth, top, parent) ==
    [ uri |-> uri, maxDepth |-> maxDepth, top |-> top, parent |-> parent,
      state |-> "new", on |-> 0, open |-> 0, ignore |-> {}, out |-> <<>> ]

\* ensureReferencedFiles(uri, maxDepth, ignore) of walk w: ignore.add(uri), then ensureModuleStructure()
\* is asked for and subscribed to
walkStart(st, w) ==
    LET top == st.walks[w].top
        st1 == [st EXCEPT !.walks[top].ignore = @ \cup {st.walks[w].uri}]
        st2 == getOrBuild(st1, "ensuredModuleStructure")
        i   == st2.ensured["ensuredModuleStructure"]
        state == st2.pipes[i].state
    IN  CASE state = "done" -> [st2 EXCEPT !.tasks = <<Task("walkAfterModule", w)>> \o @]
          [] state = "failed" -> [st2 EXCEPT !.tasks = <<Task("walkError", w)>> \o @]
          [] OTHER -> connect([st2 EXCEPT !.walks[w].state = "module", !.walks[w].on = i], i)

\* a walk that recurses into every referenced URI, visited or not
emitUnfiltered(st, w, referencedUri) ==
    LET child == newWalk(referencedUri, st.walks[w].maxDepth - 1, st.walks[w].top, w)
        st1 == [st EXCEPT !.walks = Append(@, child), !.walks[w].open = @ + 1]
    IN  [st1 EXCEPT !.tasks = <<Task("walkStart", Len(st1.walks))>> \o @]

\* a walk that hands its own depth on to the walks it makes
emitSameDepth(st, w, referencedUri) ==
    IF referencedUri \in st.walks[st.walks[w].top].ignore THEN st
    ELSE LET child == newWalk(referencedUri, st.walks[w].maxDepth, st.walks[w].top, w)
             st1 == [st EXCEPT !.walks = Append(@, child), !.walks[w].open = @ + 1]
         IN  [st1 EXCEPT !.tasks = <<Task("walkStart", Len(st1.walks))>> \o @]

\* a referenced URI reaches .filter(uri => !ignore.has(uri)).mergeMap(uri => ensureReferencedFiles(...))
emit(st, w, referencedUri) ==
    IF referencedUri \in st.walks[st.walks[w].top].ignore THEN st
    ELSE LET child == newWalk(referencedUri, st.walks[w].maxDepth - 1, st.walks[w].top, w)
             st1 == [st EXCEPT !.walks = Append(@, child), !.walks[w].open = @ + 1]
         IN  [st1 EXCEPT !.tasks = <<Task("walkStart", Len(st1.walks))>> \o @]

\* a walk whose error reaches the walk that made it
walkEndUncaught(st, w, state) ==
    LET st1 == [st EXCEPT !.walks[w].state = state]
        parent == st.walks[w].parent
    IN  IF parent = 0 THEN st1
        ELSE [st1 EXCEPT !.walks[parent].open = @ - 1,
                         !.walks[parent].out = @ \o st.walks[w].out,
                         !.tasks = <<Task(IF state = "failed" THEN "walkError" ELSE "childComplete",
                                          parent)>> \o @]

\* the walk is over, with or without an error; the walk that made it hears of a completion
\* either way (.catch(err => [])), the caller of a top-level walk of the outcome.  What the walk
\* emitted is what the mergeMap of the walk that made it emits in turn
walkEnd(st, w, state) ==
    LET st1 == [st EXCEPT !.walks[w].state = state]
        parent == st.walks[w].parent
    IN  IF parent = 0 THEN st1
        ELSE [st1 EXCEPT !.walks[parent].open = @ - 1,
                         !.walks[parent].out = @ \o st.walks[w].out,
                         !.tasks = <<Task("childComplete", parent)>> \o @]

\* mergeMap completes when its source has completed and no inner Observable is open
walkMayComplete(st, w) ==
    IF st.walks[w].state = "children" /\ st.walks[w].open = 0 THEN walkEnd(st, w, "done") ELSE st

outerComplete(st, w) == walkMayComplete([st EXCEPT !.walks[w].state = "children"], w)

----------------------------------------------------------------------------
(* One synchronous turn: every notification is delivered, depth first      *)

handle(st, task) ==
    CASE task.t = "startFetches" -> startFetches(st, task.i)
      [] task.t = "pipeDone" -> pipeDone(st, task.i)
      [] task.t = "pipeFail" -> pipeFail(st, task.i)
      [] task.t = "resolutionBody" -> resolutionBody(st, task.i)
      [] task.t = "resolutionFail" -> resolutionFail(st, task.i)
      [] task.t = "walkStart" -> walkStart(st, task.i)
      [] task.t = "walkAfterModule" -> walkAfterModule(st, task.i)
      [] task.t = "walkError" -> walkEnd(st, task.i, "failed")
      [] task.t = "emit" -> emit(st, task.i, task.uri)
      [] task.t = "outerComplete" -> outerComplete(st, task.i)
      [] task.t = "childComplete" -> walkMayComplete(st, task.i)

RECURSIVE run(_)
run(st) ==
    CHOOSE end \in { IF now.tasks = <<>> THEN now
                     ELSE run(handle([now EXCEPT !.tasks = Tail(@)],
                                     Head(now.tasks)))
                     : now \in {st} } : TRUE

----------------------------------------------------------------------------
(* The operations.  Every one is a whole synchronous turn.                 *)

\* the bounds of the model, on the state a turn ends in
withinBounds(st) ==
    /\ Len(st.pipes) <= MaxPipes
    /\ Len(st.resolutions) <= MaxResolutions
    /\ Len(st.walks) <= MaxWalks
    /\ \A i \in DOMAIN st.pipes :
            /\ st.pipes[i].subs <= MaxSubs
            /\ st.pipes[i].left <= MaxSubs
    /\ \A u \in DOMAIN st.versions : st.versions[u] <= MaxVersion
    /\ \A k \in Kinds : \A d \in DOMAIN st.configs[k] :
            st.configs[k][d].host.projectVersion <= MaxProjectVersion

Turn(st) == \E end \in {run(st)} : withinBounds(end) /\ Become(end)

\* InMemoryFileSystem.add(uri, content) and the 'add' subscription of the constructor
add(uri, content) ==
    Turn([Cur EXCEPT !.files = memfsAdd(@, uri, content),
                     !.configs = onAdd(@, rootPath, uri, content)])

\* an intake that stages the file on didClose as well
intakeStaging(st, uri, sourceFile, program) ==
    LET filePath == uri2path(uri)
        st1 == [st EXCEPT !.versions = mapSet(@, uri, versionOrZero(@, uri) + 1)]
        configType == getConfigurationType(filePath)
        owner == getConfigurationIfExists(st1.configs, rootPath, filePath, configType)
        r1 == ensureConfigFile(st1.configs[configType][owner.dir], fsIn(st1), rootPath)
        r2 == ensureSourceFile(r1.config, fsIn(st1), filePath, program)
    IN  IF ~owner.found \/ r1.threw \/ r2.threw THEN st1
        ELSE [st1 EXCEPT !.configs[configType][owner.dir] =
                            [r2.config EXCEPT !.host = incProjectVersion(@)]]

\* the part didChange and didClose share: the version is bumped, the owner is looked up and
\* ensureConfigFile is called on it
intake(st, uri, sourceFile, program) ==
    LET filePath == uri2path(uri)
        st1 == [st EXCEPT !.versions = mapSet(@, uri, versionOrZero(@, uri) + 1)]
        configType == getConfigurationType(filePath)
        owner == getConfigurationIfExists(st1.configs, rootPath, filePath, configType)
        r1 == ensureConfigFile(st1.configs[configType][owner.dir], fsIn(st1), rootPath)
        r2 == IF sourceFile THEN ensureSourceFile(r1.config, fsIn(st1), filePath, program)
              ELSE r1
    IN  IF ~owner.found \/ r1.threw \/ r2.threw THEN st1
        ELSE [st1 EXCEPT !.configs[configType][owner.dir] =
                            [r2.config EXCEPT !.host = incProjectVersion(@)]]

didChange(uri, text, program) ==
    Turn(intake([Cur EXCEPT !.overlay = mapSet(@, uri, text)], uri, TRUE, program))

didOpen(uri, text, program) == didChange(uri, text, program)

didClose(uri) ==
    Turn(intake([Cur EXCEPT !.overlay = mapDelete(@, uri)], uri, FALSE, TRUE))

didSave(uri) == Turn(Cur)

\* a method of the ProjectConfiguration at dir in the map of configType is called
called(configType, dir, r) ==
    /\ dir \in DOMAIN configs[configType]
    /\ Turn([Cur EXCEPT !.configs[configType][dir] = r.config])

callEnsureConfigFile(configType, dir) ==
    /\ dir \in DOMAIN configs[configType]
    /\ called(configType, dir, ensureConfigFile(configs[configType][dir], fsIn(Cur), rootPath))

callEnsureBasicFiles(configType, dir, program) ==
    /\ dir \in DOMAIN configs[configType]
    /\ called(configType, dir,
              ensureBasicFiles(configs[configType][dir], fsIn(Cur), rootPath, program))

callEnsureSourceFile(configType, dir, filePath, program) ==
    /\ dir \in DOMAIN configs[configType]
    /\ called(configType, dir,
              ensureSourceFile(configs[configType][dir], fsIn(Cur), filePath, program))

callEnsureAllFiles(configType, dir, program) ==
    /\ dir \in DOMAIN configs[configType]
    /\ called(configType, dir,
              ProjectConfiguration_ensureAllFiles(configs[configType][dir], fsIn(Cur), rootPath, program))

\* the language service asks the host of a configuration for the version of a file
getScriptVersion(configType, dir, filePath) ==
    /\ dir \in DOMAIN configs[configType]
    /\ configs[configType][dir].host.present
    /\ Turn([Cur EXCEPT !.versions = seedVersion(@, path2uri(filePath))])

\* ensureModuleStructure(), ensureOwnFiles() or ensureAllFiles() is called and the caller
\* subscribes to the signal it is handed
ensure(scope) ==
    LET st1 == getOrBuild(Cur, scope)
    IN  Turn(subscribe(st1, st1.ensured[scope]))

\* Subscription.unsubscribe() of a caller subscribed to the signal of pipeline i, while another
\* caller or a walk stays subscribed.  (What the last subscriber's leaving cancels is up to the
\* updater, and is not modelled.)
unsubscribe(i) ==
    /\ i \in DOMAIN pipes
    /\ pipes[i].subs >= 1
    /\ pipes[i].subs + Len(walksOn(Cur, i)) >= 2
    /\ Turn(leave(Cur, i))

\* an invalidation that empties the module-structure slot only
invalidateOnlyModuleStructure ==
    Turn([Cur EXCEPT !.ensured["ensuredModuleStructure"] = 0])

invalidateModuleStructure ==
    Turn([Cur EXCEPT !.ensured = [scope \in Scopes |-> 0]])

invalidateReferencedFiles(uri) ==
    Turn([Cur EXCEPT !.referencedFiles = mapDelete(@, uri)])

invalidateAllReferencedFiles ==
    Turn([Cur EXCEPT !.referencedFiles = EmptyMap])

\* ensureReferencedFiles(uri, maxDepth) is called with a fresh ignore set and subscribed to
ensureReferencedFiles(uri, maxDepth, program) ==
    LET w == Len(walks) + 1
    IN  Turn([Cur EXCEPT !.walks = Append(@, newWalk(uri, maxDepth, w, 0)),
                         !.tasks = <<Task("walkStart", w)>>,
                         !.program = program])

----------------------------------------------------------------------------
(* The updater's fetches end *)

pipesIn(st, state) == ascending({ i \in 1..Len(st.pipes) : st.pipes[i].state = state })

\* the structure is fetched: every file of the backing store is known to the memfs by name
structureFetched ==
    /\ structure = "inflight"
    /\ LET known == [u \in DOMAIN files \cup DOMAIN remote |->
                        IF u \in DOMAIN files THEN files[u] ELSE NoContent]
       IN  Turn([Cur EXCEPT !.structure = "done", !.files = known,
                            !.tasks = tasksFor("startFetches", pipesIn(Cur, "structure"))])

structureFailed ==
    /\ structure = "inflight"
    /\ Turn([Cur EXCEPT !.structure = "idle",
                        !.tasks = tasksFor("pipeFail", pipesIn(Cur, "structure"))])

\* the pipelines and resolutions that wait for the fetch of uri
pipesFetching(st, uri) ==
    ascending({ i \in 1..Len(st.pipes) :
                    st.pipes[i].state = "fetching" /\ uri \in st.pipes[i].requested })

resolutionsFetching(st, uri) ==
    ascending({ j \in 1..Len(st.resolutions) :
                    st.resolutions[j].state = "fetching" /\ st.resolutions[j].uri = uri })

\* a pipeline whose every fetch is through completes
pipesThrough(st) ==
    ascending({ i \in 1..Len(st.pipes) :
                    /\ st.pipes[i].state = "fetching"
                    /\ \A u \in st.pipes[i].requested : fetchState(st, u) = "done" })

\* the content of uri is fetched and added to the memfs
fetched(uri, program) ==
    /\ fetchState(Cur, uri) = "inflight"
    /\ uri \in DOMAIN remote
    /\ LET st1 == [Cur EXCEPT !.fetches = mapSet(@, uri, "done"),
                              !.files = memfsAdd(@, uri, remote[uri]),
                              !.configs = onAdd(@, rootPath, uri, remote[uri]),
                              !.program = program]
       IN  Turn([st1 EXCEPT !.tasks = tasksFor("pipeDone", pipesThrough(st1))
                                      \o tasksFor("resolutionBody", resolutionsFetching(st1, uri))])

fetchFailed(uri) ==
    /\ fetchState(Cur, uri) = "inflight"
    /\ Turn([Cur EXCEPT !.fetches = mapDelete(@, uri),
                        !.tasks = tasksFor("pipeFail", pipesFetching(Cur, uri))
                                  \o tasksFor("resolutionFail", resolutionsFetching(Cur, uri))])

----------------------------------------------------------------------------
(* The workspace of the model *)

Root == <<"", "root">>

RootPaths == {Root, Root \o <<"">>}

Pkg == Root \o <<"pkg">>

uriOf(dir, name) == path2uri(dir \o <<name>>)

\* after construction: the fallbacks at the trimmed root, nothing fetched, nothing memoized
InitWith(roots, worlds) ==
    /\ rootPath \in roots
    /\ remote \in worlds
    /\ configs = initialConfigs(rootPath)
    /\ versions = EmptyMap
    /\ files = EmptyMap
    /\ overlay = EmptyMap
    /\ structure = "idle"
    /\ fetches = EmptyMap
    /\ pipes = <<>>
    /\ ensured = [scope \in Scopes |-> 0]
    /\ resolutions = <<>>
    /\ referencedFiles = EmptyMap
    /\ walks = <<>>

----------------------------------------------------------------------------
(* The router under add events *)

RouterURIs ==
    { uriOf(Root, "tsconfig.json"), uriOf(Pkg, "tsconfig.json"), uriOf(Pkg, "jsconfig.json"),
      uriOf(Root \o <<"node_modules", "m">>, "tsconfig.json"),
      uriOf(<<"", "other">>, "tsconfig.json"), uriOf(<<"">>, "tsconfig.json"),
      uriOf(Root, "y.ts") }

RouterContents == {NoContent, "", "{}"}

\* the paths the router is asked about
QueryPaths ==
    { Root \o <<"y.ts">>, Pkg \o <<"sub", "x.ts">>, Pkg \o <<"w.js">>, Pkg,
      <<"", "other", "z.ts">>, <<"", "elsewhere", "z.ts">> }

InitRouter == InitWith(RootPaths, {EmptyMap})

NextRouter == \E uri \in RouterURIs, content \in RouterContents : add(uri, content)

SpecRouter == InitRouter /\ [][NextRouter]_vars

trimmedRoot == trimTrailingSlashes(rootPath)

insideRoot(filePath) == IsPrefix(trimmedRoot, Front(filePath))

configurationFor(filePath, configType) ==
    getConfigurationIfExists(configs, rootPath, filePath, configType)

hasFallback(cfgs, configType) ==
    /\ trimmedRoot \in DOMAIN cfgs[configType]
    /\ cfgs[configType][trimmedRoot].configContent # "undefined"

\* the keys of a kind's map that are the path or a directory above it, the root and the
\* directories above the root left out
enclosingKeys(filePath, configType) ==
    { dir \in DOMAIN configs[configType] : IsPrefix(trimmedRoot, dir) /\ IsPrefix(dir, filePath) }

\* C1, as stated: every file path inside the workspace root has an owner of its kind, never absent
C1_NeverAbsent ==
    \A filePath \in QueryPaths :
        insideRoot(filePath) => configurationFor(filePath, getConfigurationType(filePath)).found

\* C1, amended: a file path inside the workspace root has an owner of its kind exactly when that
\* kind's map holds a key, at the trimmed root or under it, that is the path or a directory
\* above it; with the fallback evicted there may be none
C1_OwnerIffEnclosingKey ==
    \A filePath \in QueryPaths :
        insideRoot(filePath) =>
            (configurationFor(filePath, getConfigurationType(filePath)).found
                <=> enclosingKeys(filePath, getConfigurationType(filePath)) # {})

\* a real configuration under the root evicted the ts fallback: the file next to it has an
\* owner, the file at the root has none
C1_Witness ==
    /\ ~hasFallback(configs, "ts")
    /\ configurationFor(Pkg \o <<"sub", "x.ts">>, "ts") = Found(Pkg)
    /\ ~configurationFor(Root \o <<"y.ts">>, "ts").found

\* the keys of a kind's map that are directories above the file
ancestorKeys(filePath, configType) ==
    { dir \in DOMAIN configs[configType] : IsPrefix(dir, Front(filePath)) }

\* the non-empty keys of a kind's map that the path starts with: the path itself or a directory
\* above it, for a path inside the root only those at the root or under it
prefixKeys(filePath, configType) ==
    { dir \in DOMAIN configs[configType] :
        /\ dir # EmptyString
        /\ IsPrefix(dir, filePath)
        /\ (insideRoot(filePath) => IsPrefix(trimmedRoot, dir)) }

longestOf(dir, keys) == dir \in keys /\ \A other \in keys : Len(other) <= Len(dir)

\* C2, as stated: a Session that is returned is the one at the nearest ancestor directory of the
\* file among the keys of the kind's map
C2_NearestAncestor ==
    \A filePath \in QueryPaths, configType \in Kinds :
        configurationFor(filePath, configType).found =>
            longestOf(configurationFor(filePath, configType).dir, ancestorKeys(filePath, configType))

\* C2, amended: a Session that is returned is the one at the longest key that the path starts
\* with (the path itself counts), at or under the trimmed root for a path inside the root; when
\* no key is above a path outside the root, it is the Session at the root
C2_LongestPrefixOrRoot ==
    \A filePath \in QueryPaths, configType \in Kinds :
        configurationFor(filePath, configType).found =>
            IF prefixKeys(filePath, configType) # {}
            THEN longestOf(configurationFor(filePath, configType).dir, prefixKeys(filePath, configType))
            ELSE configurationFor(filePath, configType).dir = trimmedRoot

\* the root and a directory under it both hold a real ts configuration: the file under the
\* directory gets the deeper one, the file outside the root the one at the root
C2_Witness ==
    /\ {trimmedRoot, Pkg} \subseteq DOMAIN configs["ts"]
    /\ configurationFor(Pkg \o <<"sub", "x.ts">>, "ts") = Found(Pkg)
    /\ configurationFor(<<"", "elsewhere", "z.ts">>, "ts") = Found(trimmedRoot)

----------------------------------------------------------------------------
(* The sessions under change notifications, ensure calls and a reset *)

SessionWorld ==
    [ u \in {uriOf(Pkg, "tsconfig.json"), uriOf(Root, "g.d.ts")} |->
        IF u = uriOf(Pkg, "tsconfig.json") THEN "{}" ELSE "" ]

\* the files added to the memfs from outside the updater, with their content
SessionAdds ==
    { <<uriOf(Pkg, "x.ts"), "">>, <<uriOf(Pkg, "tsconfig.json"), "{}">>,
      <<uriOf(Pkg, "tsconfig.json"), "bad">> }

ChangeURIs == {uriOf(Pkg, "x.ts"), uriOf(Root, "y.ts")}

Texts == {"t"}

SessionDirs == {Root, Pkg}

InitSession == InitWith({Root}, {SessionWorld})

NextSession ==
    \/ \E a \in SessionAdds : add(a[1], a[2])
    \/ \E uri \in ChangeURIs, text \in Texts : didOpen(uri, text, TRUE)
    \/ \E uri \in ChangeURIs, text \in Texts, program \in BOOLEAN : didChange(uri, text, program)
    \/ \E uri \in ChangeURIs : didClose(uri)
    \/ \E uri \in ChangeURIs : didSave(uri)
    \/ \E dir \in SessionDirs : callEnsureConfigFile("ts", dir)
    \/ \E dir \in SessionDirs, program \in BOOLEAN : callEnsureBasicFiles("ts", dir, program)
    \/ \E dir \in SessionDirs, program \in BOOLEAN :
            callEnsureSourceFile("ts", dir, Pkg \o <<"x.ts">>, program)
    \/ \E dir \in SessionDirs, program \in BOOLEAN : callEnsureAllFiles("ts", dir, program)
    \/ \E dir \in SessionDirs, uri \in ChangeURIs : getScriptVersion("ts", dir, uri2path(uri))
    \/ ensure("ensuredModuleStructure")
    \/ structureFetched
    \/ \E uri \in DOMAIN SessionWorld : fetched(uri, TRUE)

SpecSession == InitSession /\ [][NextSession]_vars

\* a change notification for uri is handled
changeEvent(uri) ==
    \/ \E text \in Texts : didOpen(uri, text, TRUE)
    \/ \E text \in Texts, program \in BOOLEAN : didChange(uri, text, program)
    \/ didClose(uri)

\* the host of some Session is asked for the version of uri
versionAsked(uri) == \E dir \in SessionDirs : getScriptVersion("ts", dir, uri2path(uri))

\* C4, as stated: the stored version of a URI changes with the didOpen, didChange and didClose
\* events on it, by exactly one each, and with nothing else
C4_OnlyChangeEventsCount ==
    [][ \A uri \in ChangeURIs :
            IF versionOrZero(versions', uri) = versionOrZero(versions, uri) + 1
            THEN changeEvent(uri)
            ELSE versionOrZero(versions', uri) = versionOrZero(versions, uri) /\ ~changeEvent(uri)
      ]_vars

\* C4, amended: the stored version of a URI never decreases and changes by exactly one with each
\* didOpen, didChange and didClose event on it; the one other operation that changes it is the
\* host's getScriptVersion, which stores 1 for a URI that has no version yet
C4_ChangeEventsAndSeed ==
    [][ \A uri \in ChangeURIs :
            IF versionOrZero(versions', uri) = versionOrZero(versions, uri) + 1
            THEN changeEvent(uri) \/ (versionOrZero(versions, uri) = 0 /\ versionAsked(uri))
            ELSE versionOrZero(versions', uri) = versionOrZero(versions, uri) /\ ~changeEvent(uri)
      ]_vars

\* a document was opened and changed, or changed and closed: its version is 2
C4_Witness ==
    \E uri \in ChangeURIs : versionOrZero(versions, uri) = 2 /\ uri \in DOMAIN overlay

\* the completion handler of a module-structure pipeline runs in this step: every Session is reset
resetStep ==
    \E i \in DOMAIN pipes' :
        /\ pipes'[i].scope = "ensuredModuleStructure"
        /\ pipes'[i].state = "done"
        /\ (i \in DOMAIN pipes => pipes[i].state # "done")

\* the configuration files that reach the memfs, by an add from outside or by a fetch
Deliveries == SessionAdds \cup { <<uri, SessionWorld[uri]>> : uri \in DOMAIN SessionWorld }

delivered(uri, content) ==
    \/ add(uri, content)
    \/ uri \in DOMAIN remote /\ remote[uri] = content /\ fetched(uri, TRUE)

\* the add subscription puts a new Session at dir in the map of configType in this step
replaced(configType, dir) ==
    \E a \in Deliveries :
        /\ addFilter(a[1], a[2])
        /\ getConfigurationType(uri2path(a[1])) = configType
        /\ parentDir(toUnixPath(uri2path(a[1]))) = dir
        /\ delivered(a[1], a[2])

\* the Session at dir in the map of configType is the owner of uri and a change notification
\* for uri is handled
changeRoutedTo(configType, dir) ==
    \E uri \in ChangeURIs :
        /\ getConfigurationType(uri2path(uri)) = configType
        /\ configurationFor(uri2path(uri), configType) = Found(dir)
        /\ changeEvent(uri)

flagsOf(config) ==
    [ initialized |-> config.initialized, ensuredBasicFiles |-> config.ensuredBasicFiles,
      ensuredAllFiles |-> config.ensuredAllFiles, complete |-> config.host.complete ]

\* every flag that is set in before is set in after, every staged path of before is staged in after
monotone(before, after) ==
    /\ \A flag \in DOMAIN flagsOf(before) : flagsOf(before)[flag] => flagsOf(after)[flag]
    /\ IsPrefix(before.host.filePaths, after.host.filePaths)

\* C6: unless the step runs reset() (a module-structure pipeline completes) or puts a new Session
\* in its place, a Session keeps every flag it has set and every file path it has staged
C6_StagingMonotonic ==
    [][ \A configType \in Kinds :
          \A dir \in DOMAIN configs[configType] \cap DOMAIN configs'[configType] :
            \/ monotone(configs[configType][dir], configs'[configType][dir])
            \/ resetStep
            \/ replaced(configType, dir)
      ]_vars

\* a Session with every tier reached and a file staged
C6_Witness ==
    \E dir \in SessionDirs :
        /\ dir \in DOMAIN configs["ts"]
        /\ configs["ts"][dir].ensuredBasicFiles
        /\ configs["ts"][dir].ensuredAllFiles
        /\ configs["ts"][dir].host.complete
        /\ Len(configs["ts"][dir].host.filePaths) >= 2

\* the add or the fetch delivers a non-empty configuration file of a kind, outside node_modules
deliversConfigTo(configType) ==
    \E a \in Deliveries :
        /\ isConfigFile(a[1]) /\ ~includesNodeModules(a[1])
        /\ a[2] # NoContent /\ a[2] # ""
        /\ getConfigurationType(uri2path(a[1])) = configType
        /\ delivered(a[1], a[2])

\* C3: right after an add event delivered a non-empty real configuration file of a kind outside
\* node_modules that kind's map does not hold the fallback, and a map that does not hold it
\* never holds it again
C3_FallbackEvictedForGood ==
    [][ \A configType \in Kinds :
            (~hasFallback(configs, configType) \/ deliversConfigTo(configType))
                => ~hasFallback(configs', configType) ]_vars

\* the ts fallback is gone, evicted by the tsconfig.json under the root whose Session has been
\* put to use since, and the js one is still there
C3_Witness ==
    /\ ~hasFallback(configs, "ts")
    /\ Pkg \in DOMAIN configs["ts"]
    /\ configs["ts"][Pkg].host.present
    /\ hasFallback(configs, "js")

----------------------------------------------------------------------------
(* The pipelines and the resolutions under calls, invalidations and fetch outcomes *)

PipeWorld ==
    [ u \in {uriOf(Root, "tsconfig.json"), uriOf(Root, "a.ts")} |->
        IF u = uriOf(Root, "tsconfig.json") THEN "{}" ELSE "import b" ]

WalkWorld ==
    [ u \in {uriOf(Root, "tsconfig.json"), uriOf(Root, "a.ts"), uriOf(Root, "b.ts")} |->
        CASE u = uriOf(Root, "tsconfig.json") -> "{}"
          [] u = uriOf(Root, "a.ts") -> "import b"
          [] OTHER -> "" ]

WalkURIs == {uriOf(Root, "a.ts")}

Depths == {0, 1}

InitPipes == InitWith({Root}, {PipeWorld})

InitWalks == InitWith({Root}, {WalkWorld})

\* the ensure calls and the fetch outcomes, no invalidation
NextErrors ==
    \/ \E scope \in Scopes : ensure(scope)
    \/ \E uri \in WalkURIs : ensureReferencedFiles(uri, 1, TRUE)
    \/ structureFetched
    \/ structureFailed
    \/ \E uri \in DOMAIN remote : fetched(uri, TRUE)
    \/ \E uri \in DOMAIN remote : fetchFailed(uri)

SpecErrors == InitPipes /\ [][NextErrors]_vars

\* the ensure calls, invalidateModuleStructure and the fetch outcomes
NextPipes ==
    \/ \E scope \in Scopes : ensure(scope)
    \/ invalidateModuleStructure
    \/ structureFetched
    \/ structureFailed
    \/ \E uri \in DOMAIN remote : fetched(uri, TRUE)
    \/ \E uri \in DOMAIN remote : fetchFailed(uri)

SpecPipes == InitPipes /\ [][NextPipes]_vars

\* ensureReferencedFiles, the invalidations and the fetch outcomes
NextWalks ==
    \/ \E uri \in WalkURIs, maxDepth \in Depths : ensureReferencedFiles(uri, maxDepth, TRUE)
    \/ \E uri \in WalkURIs : invalidateReferencedFiles(uri)
    \/ invalidateAllReferencedFiles
    \/ invalidateModuleStructure
    \/ structureFetched
    \/ structureFailed
    \/ \E uri \in DOMAIN remote : fetched(uri, TRUE)
    \/ \E uri \in DOMAIN remote : fetchFailed(uri)

SpecWalks == InitWalks /\ [][NextWalks]_vars

----------------------------------------------------------------------------
(* C7 to C10 *)

\* a slot holds a pipeline of its scope that has not failed
slotsLive ==
    \A scope \in Scopes :
        ensured[scope] # 0 =>
            /\ pipes[ensured[scope]].scope = scope
            /\ pipes[ensured[scope]].state \in {"structure", "fetching", "done"}

\* the cache holds, for a URI, a resolution of that URI that has not failed
cacheLive ==
    \A uri \in DOMAIN referencedFiles :
        /\ resolutions[referencedFiles[uri]].uri = uri
        /\ resolutions[referencedFiles[uri]].state \in {"fetching", "done"}

\* what is memoized and not through yet has its fetches under way at the updater
attemptsRunning ==
    /\ \A scope \in Scopes :
          ensured[scope] # 0 =>
            /\ pipes[ensured[scope]].state = "structure" => structure = "inflight"
            /\ pipes[ensured[scope]].state = "fetching" =>
                  /\ \A uri \in pipes[ensured[scope]].requested : fetchState(Cur, uri) # "idle"
                  /\ \E uri \in pipes[ensured[scope]].requested : fetchState(Cur, uri) = "inflight"
    /\ \A uri \in DOMAIN referencedFiles :
          resolutions[referencedFiles[uri]].state = "fetching" => fetchState(Cur, uri) = "inflight"

\* were a pipeline or a resolution that is under way to fail now, its slot or cache entry would be
\* cleared when the notifications of its subscribers are still to be delivered
clearedBeforeObserved ==
    /\ \A i \in DOMAIN pipes :
          inFlight(pipes[i]) =>
            /\ pipeFail(Cur, i).ensured[pipes[i].scope] = 0
            /\ pipeFail(Cur, i).tasks = tasksFor("walkError", walksOn(Cur, i))
    /\ \A j \in DOMAIN resolutions :
          resolutions[j].state = "fetching" =>
            /\ resolutions[j].uri \notin DOMAIN resolutionFail(Cur, j).referencedFiles
            /\ resolutionFail(Cur, j).tasks = tasksFor("walkError", walksOnResolution(Cur, j))

\* a call of an ensure operation whose slot is empty builds a pipeline and memoizes it
freshAttempt ==
    \A scope \in Scopes :
        (ensured[scope] = 0 /\ ensure(scope)) =>
            /\ Len(pipes') = Len(pipes) + 1
            /\ ensured'[scope] = Len(pipes')

\* C7: no slot holds a failed pipeline and no cache entry a failed resolution, the clearing comes
\* before the subscribers hear of the error, and the call that follows on an empty slot builds a
\* new pipeline, whose fetches are under way at the updater
C7_ErrorsNotMemoized ==
    /\ [](slotsLive /\ cacheLive /\ attemptsRunning /\ clearedBeforeObserved)
    /\ [][freshAttempt]_vars

\* a pipeline failed and the call after it built another one for the scope, which is under way;
\* a resolution failed and the cache holds nothing for its URI
C7_Witness ==
    /\ \E i, k \in DOMAIN pipes :
          /\ pipes[i].state = "failed"
          /\ pipes[k].scope = pipes[i].scope
          /\ ensured[pipes[i].scope] = k
          /\ inFlight(pipes[k])
    /\ \E j \in DOMAIN resolutions :
          resolutions[j].state = "failed" /\ resolutions[j].uri \notin DOMAIN referencedFiles

\* the pipelines are as they were but for the number of subscribers
samePipelines ==
    /\ Len(pipes') = Len(pipes)
    /\ \A i \in DOMAIN pipes : [pipes'[i] EXCEPT !.subs = 0] = [pipes[i] EXCEPT !.subs = 0]

\* C8: a call of an ensure operation whose slot holds a pipeline that is under way or has completed
\* leaves the slot as it is, builds no pipeline and asks the updater for nothing
C8_LiveSlotIsReused ==
    [][ \A scope \in Scopes :
            ( /\ ensured[scope] # 0
              /\ pipes[ensured[scope]].state \in {"structure", "fetching", "done"}
              /\ ensure(scope) )
            => /\ ensured' = ensured
               /\ samePipelines
               /\ structure' = structure
               /\ fetches' = fetches ]_vars

\* a second caller joined a pipeline that is under way
C8_Witness ==
    \E scope \in Scopes :
        /\ ensured[scope] # 0
        /\ inFlight(pipes[ensured[scope]])
        /\ pipes[ensured[scope]].subs = 2

inFlightOf(scope) == { i \in DOMAIN pipes : pipes[i].scope = scope /\ inFlight(pipes[i]) }

oneInFlightPerScope == \A scope \in Scopes : Cardinality(inFlightOf(scope)) <= 1

\* C9, as stated: in every reachable state every scope has at most one pipeline in flight
C9_AtMostOneInFlight == oneInFlightPerScope

\* every pipeline in flight is the one its slot holds
noneOrphaned == \A scope \in Scopes : inFlightOf(scope) \subseteq {ensured[scope]}

\* C9, amended: a step other than invalidateModuleStructure, taken where every pipeline in flight
\* is the one its slot holds, ends where that is so again, with at most one in flight per scope;
\* invalidateModuleStructure called with a pipeline in flight lets the next call build a second
C9_OneInFlightUnlessInvalidated ==
    [][ (noneOrphaned /\ ~invalidateModuleStructure)
            => (noneOrphaned' /\ oneInFlightPerScope') ]_vars

\* the three scopes have a pipeline in flight each
C9_Witness ==
    /\ noneOrphaned
    /\ \A scope \in Scopes : Cardinality(inFlightOf(scope)) = 1

resolving(uri) ==
    { j \in DOMAIN resolutions : resolutions[j].uri = uri /\ resolutions[j].state = "fetching" }

oneResolvingPerURI == \A uri \in WalkURIs : Cardinality(resolving(uri)) <= 1

\* C10, as stated: in every reachable state every URI has at most one referenced-files
\* resolution in flight
C10_AtMostOneResolving == oneResolvingPerURI

\* every resolution in flight for the URI is the one the cache holds for it
cachedIfResolving(uri) ==
    resolving(uri) \subseteq (IF uri \in DOMAIN referencedFiles THEN {referencedFiles[uri]} ELSE {})

\* C10, amended: a step that is not invalidateReferencedFiles and does not complete a
\* module-structure pipeline, taken where every resolution in flight is the one the cache holds,
\* ends where that is so again: at most one is in flight per URI and the callers join it
C10_OneResolvingUnlessEvicted ==
    [][ \A uri \in WalkURIs :
            ( /\ cachedIfResolving(uri)
              /\ ~resetStep
              /\ ~invalidateReferencedFiles(uri)
              /\ ~invalidateAllReferencedFiles )
            => (cachedIfResolving(uri)' /\ oneResolvingPerURI') ]_vars

\* two callers wait for the one resolution of a URI
C10_Witness ==
    \E uri \in WalkURIs :
        /\ uri \in DOMAIN referencedFiles
        /\ resolving(uri) = {referencedFiles[uri]}
        /\ Cardinality({ w \in DOMAIN walks :
                            walks[w].state = "resolve" /\ walks[w].on = referencedFiles[uri] }) = 2

----------------------------------------------------------------------------
(* C11 and C12: the order within a pipeline, and invalidation *)

\* a pipeline asks for files only once the structure fetch is through
structureFirst ==
    /\ \A i \in DOMAIN pipes :
            (pipes[i].state \in {"fetching", "done"} \/ pipes[i].requested # {})
                => structure = "done"
    /\ (fetches # EmptyMap => structure = "done")

\* a pipeline that fails while it waits for the structure fetch has asked for no file, and a
\* pipeline that has failed does nothing more
failedForGood ==
    \A i \in DOMAIN pipes :
        /\ (pipes[i].state = "structure" /\ pipes'[i].state = "failed")
                => pipes'[i].requested = {}
        /\ pipes[i].state = "failed" => pipes'[i] = pipes[i]

\* C11: within a run of an ensure pipeline no per-URI fetch is asked for before the structure
\* fetch has completed, and none is ever asked for by a run whose structure fetch has failed
C11_StructureBeforeFiles == []structureFirst /\ [][failedForGood]_vars

\* one run failed with the structure fetch and asked for nothing; a later run waits for files
C11_Witness ==
    \E i, j \in DOMAIN pipes :
        /\ pipes[i].state = "failed" /\ pipes[i].requested = {}
        /\ pipes[j].state = "fetching" /\ pipes[j].requested # {}

\* a slot that was empty holds, once it is filled, a pipeline built in this very step
freshWhenFilled ==
    \A scope \in Scopes :
        (ensured[scope] = 0 /\ ensured'[scope] # 0)
            => /\ ensured'[scope] > Len(pipes)
               /\ ensured'[scope] <= Len(pipes')
               /\ pipes'[ensured'[scope]].scope = scope
               /\ structure' # "idle"

----------------------------------------------------------------------------
(* C13: what the 'add' subscription lets through *)

FilterURIs ==
    { uriOf(Pkg, "tsconfig.json"),
      uriOf(Pkg, "jsconfig.json.bak"),
      uriOf(Root \o <<"node_modules", "m">>, "tsconfig.json"),
      uriOf(Pkg \o <<"tsconfig.json">>, "x.ts"),
      uriOf(Pkg, "x.ts") }

InitFilter == InitWith(RootPaths, {EmptyMap})

NextFilter == \E uri \in FilterURIs, content \in RouterContents : add(uri, content)

SpecFilter == InitFilter /\ [][NextFilter]_vars

\* a tsconfig.json or jsconfig.json file outside node_modules, with content
nonEmptyConfigFile(uri, content) ==
    /\ content # NoContent /\ content # ""
    /\ basename(uri) \in ConfigFileNames
    /\ ~includesNodeModules(uri)

\* C13: an add event changes the router maps only when it delivers a non-empty tsconfig.json or
\* jsconfig.json outside node_modules; a URI under node_modules or an empty content changes nothing
C13_OnlyConfigFilesChangeRouter ==
    [][ \A uri \in FilterURIs, content \in RouterContents :
            (~nonEmptyConfigFile(uri, content) /\ add(uri, content)) => configs' = configs ]_vars

----------------------------------------------------------------------------
(* C20: the files ensureOwnFiles asks for *)

Module == Root \o <<"node_modules", "m">>

OwnWorld ==
    [ u \in { uriOf(Root, "a.ts"), uriOf(Root, "package.json"),
              uriOf(Module, "package.json"), uriOf(Module, "v.js") } |->
        IF isPackageJsonFile(u) THEN "{}" ELSE "" ]

InitOwn == InitWith({Root}, {OwnWorld})

NextOwn ==
    \/ \E scope \in Scopes : ensure(scope)
    \/ structureFetched
    \/ structureFailed
    \/ \E uri \in DOMAIN remote : fetched(uri, TRUE)
    \/ \E uri \in DOMAIN remote : fetchFailed(uri)

SpecOwn == InitOwn /\ [][NextOwn]_vars

\* the VFS URIs outside node_modules that are JS/TS sources, configuration files or package.json
ownFiles ==
    { u \in uris(fsIn(Cur)) :
        ~includesNodeModules(u) /\ (isJSTSFile(u) \/ isConfigFile(u) \/ isPackageJsonFile(u)) }

\* C20: an own-files pipeline asks for exactly the VFS URIs outside node_modules that are JS/TS
\* sources, configuration files or package.json files, and so for no URI under node_modules
C20_OwnFilesOnly ==
    \A i \in DOMAIN pipes :
        (pipes[i].scope = "ensuredOwnFiles" /\ pipes[i].state \in {"fetching", "done"})
            => /\ pipes[i].requested = ownFiles
               /\ \A u \in pipes[i].requested : ~includesNodeModules(u)

----------------------------------------------------------------------------
(* C18: a configuration file that does not parse *)

ConfigTexts == {"{}", "bad"}

ConfigURI == uriOf(Pkg, "tsconfig.json")

InitParse == InitWith({Root}, {EmptyMap})

\* the configuration file arrives, is edited in the editor and closed; Sessions are initialized
NextParse ==
    \/ \E content \in ConfigTexts : add(ConfigURI, content)
    \/ add(uriOf(Pkg, "x.ts"), "")
    \/ \E text \in ConfigTexts : didChange(ConfigURI, text, TRUE)
    \/ didClose(ConfigURI)
    \/ \E configType \in Kinds, dir \in SessionDirs : callEnsureConfigFile(configType, dir)
    \/ \E dir \in SessionDirs : callEnsureBasicFiles("ts", dir, TRUE)

SpecParse == InitParse /\ [][NextParse]_vars

\* the Session reads its configuration from a file, and what the VFS holds for it does not parse
unparsable(config) ==
    /\ config.configContent = "undefined"
    /\ readFile(fsIn(Cur), config.configFilePath) = "bad"

\* an uninitialized Session has neither host nor service; asked to initialize, it parses its
\* configuration file whatever earlier calls met: it throws and stays as it is when the file
\* does not parse, and is initialized when it does
parsedAtEveryCall ==
    \A configType \in Kinds : \A dir \in DOMAIN configs[configType] :
        LET config == configs[configType][dir]
            r == ensureConfigFile(config, fsIn(Cur), rootPath)
        IN  ~config.initialized =>
                /\ config.host = NoHost /\ ~config.service
                /\ unparsable(config) => (r.threw /\ r.config = config)
                /\ ~(config.configContent = "undefined"
                        /\ parseError(fsIn(Cur), config.configFilePath))
                     => (~r.threw /\ r.config.initialized /\ r.config.host.present
                         /\ r.config.service)

\* the Sessions other than the one at dir in the map of configType are as they were
othersUnchanged(configType, dir) ==
    \A otherType \in Kinds :
        /\ DOMAIN configs'[otherType] = DOMAIN configs[otherType]
        /\ \A otherDir \in DOMAIN configs[otherType] :
                (otherType # configType \/ otherDir # dir)
                    => configs'[otherType][otherDir] = configs[otherType][otherDir]

\* C18: ensureConfigFile on a Session whose configuration file does not parse throws and leaves
\* the Session uninitialized, without host and service; every later call parses again; the
\* other Sessions and the routing are as they were
C18_ParseFailureIsRetried ==
    /\ []parsedAtEveryCall
    /\ [][ \A configType \in Kinds, dir \in SessionDirs :
              (dir \in DOMAIN configs[configType] /\ callEnsureConfigFile(configType, dir))
                  => /\ othersUnchanged(configType, dir)
                     /\ (~configs[configType][dir].initialized
                            /\ unparsable(configs[configType][dir])) => configs' = configs
          ]_vars
    /\ [][ \A text \in ConfigTexts :
              didChange(ConfigURI, text, TRUE)
                  => LET owner == getConfigurationIfExists(configs, rootPath,
                                                           uri2path(ConfigURI), "ts")
                     IN  IF owner.found
                         THEN /\ othersUnchanged("ts", owner.dir)
                              /\ ( /\ text = "bad"
                                   /\ ~configs["ts"][owner.dir].initialized
                                   /\ configs["ts"][owner.dir].configContent = "undefined" )
                                    => configs' = configs
                         ELSE configs' = configs ]_vars

\* an edit of the configuration file that does not parse was handled: its Session is still
\* uninitialized, while another Session is initialized
C18_Witness ==
    /\ Pkg \in DOMAIN configs["ts"]
    /\ ~configs["ts"][Pkg].initialized
    /\ unparsable(configs["ts"][Pkg])
    /\ ConfigURI \in DOMAIN overlay
    /\ versionOrZero(versions, ConfigURI) >= 1
    /\ \E dir \in DOMAIN configs["js"] : configs["js"][dir].initialized

----------------------------------------------------------------------------
(* C14 to C17: the walk over the referenced files *)

\* x imports a and b, a imports b and b imports a: a cycle, and two ways from x to b
TreeWorld ==
    [ u \in {uriOf(Root, "x.ts"), uriOf(Root, "a.ts"), uriOf(Root, "b.ts")} |->
        CASE u = uriOf(Root, "x.ts") -> "import a, b"
          [] u = uriOf(Root, "a.ts") -> "import b"
          [] OTHER -> "import a" ]

TreeURIs == DOMAIN TreeWorld

TreeDepths == {1, 2, 3}

InitTree == InitWith(RootPaths, {TreeWorld})

\* one top-level ensureReferencedFiles call, ensure calls beside it, and fetches that complete
NextCycle ==
    \/ /\ walks = <<>>
       /\ \E uri \in TreeURIs, maxDepth \in TreeDepths : ensureReferencedFiles(uri, maxDepth, TRUE)
    \/ \E scope \in Scopes : ensure(scope)
    \/ structureFetched
    \/ \E uri \in TreeURIs : fetched(uri, TRUE)

\* every fetch that was asked for completes
FairCycle ==
    /\ WF_vars(structureFetched)
    /\ \A uri \in TreeURIs : WF_vars(fetched(uri, TRUE))

SpecCycle == InitTree /\ [][NextCycle]_vars /\ FairCycle

terminated(w) == walks[w].state \in {"done", "failed"}

\* no two walks of one top-level call are for the same URI
visitedOnce ==
    \A v, w \in DOMAIN walks :
        (v # w /\ walks[v].top = walks[w].top) => walks[v].uri # walks[w].uri

\* C14: with fetches that complete, a top-level ensureReferencedFiles call terminates, whatever
\* the order the fetches complete in, and no URI is walked twice within it, cycles or not
C14_TerminatesVisitingOnce ==
    /\ []visitedOnce
    /\ (walks # <<>>) ~> (\A w \in DOMAIN walks : terminated(w))

\* the walk from x went through a and b, each of which refers to a file already visited, and ended
C14_Witness ==
    /\ Len(walks) = 3
    /\ walks[1].uri = uriOf(Root, "x.ts") /\ walks[1].maxDepth = 3
    /\ \A w \in DOMAIN walks : walks[w].state = "done"
    /\ \A u \in TreeURIs : u \in DOMAIN referencedFiles

\* C15: ensureReferencedFiles(a.ts, 1), a.ts importing b.ts only, emits the URI of b.ts
C15_EmitsReferenced ==
    \A w \in DOMAIN walks :
        ( /\ walks[w].parent = 0
          /\ walks[w].uri = uriOf(Root, "a.ts")
          /\ walks[w].maxDepth = 1
          /\ walks[w].state = "done" )
            => walks[w].out = <<uriOf(Root, "b.ts")>>

\* only calls with maxDepth 0, beside invalidations and fetch outcomes
NextShallow ==
    \/ \E uri \in WalkURIs : ensureReferencedFiles(uri, 0, TRUE)
    \/ invalidateModuleStructure
    \/ structureFetched
    \/ structureFailed
    \/ \E uri \in DOMAIN remote : fetched(uri, TRUE)
    \/ \E uri \in DOMAIN remote : fetchFailed(uri)

SpecShallow == InitWalks /\ [][NextShallow]_vars

\* C16: ensureReferencedFiles(u, 0) completes only once a module-structure pipeline has, emits
\* nothing, walks into nothing, asks for no fetch of u and makes no cache entry for u
C16_DepthZeroOnlyWaits ==
    /\ resolutions = <<>>
    /\ referencedFiles = EmptyMap
    /\ \A w \in DOMAIN walks :
            /\ walks[w].maxDepth = 0
            /\ walks[w].state \in {"module", "done", "failed"}
            /\ walks[w].out = <<>> /\ walks[w].open = 0
            /\ walks[w].uri \notin DOMAIN fetches
            /\ walks[w].state = "done"
                    => \E i \in DOMAIN pipes :
                            pipes[i].scope = "ensuredModuleStructure" /\ pipes[i].state = "done"

\* a call failed with the module structure, a later one has completed
C16_Witness ==
    \E v, w \in DOMAIN walks :
        /\ walks[v].state = "failed"
        /\ walks[w].state = "done"

\* one top-level call that walks into the referenced files, ensure calls beside it, and fetches
\* that complete or fail
NextBranches ==
    \/ /\ walks = <<>>
       /\ \E uri \in TreeURIs, maxDepth \in TreeDepths : ensureReferencedFiles(uri, maxDepth, TRUE)
    \/ structureFetched
    \/ structureFailed
    \/ \E uri \in TreeURIs : fetched(uri, TRUE)
    \/ \E uri \in TreeURIs : fetchFailed(uri)

\* every fetch that was asked for completes or fails
FairBranches ==
    /\ WF_vars(structureFetched \/ structureFailed)
    /\ \A uri \in TreeURIs : WF_vars(fetched(uri, TRUE) \/ fetchFailed(uri))

SpecBranches == InitTree /\ [][NextBranches]_vars /\ FairBranches

\* a walk that has walked into a referenced file does not fail
failsAlone == \A v, w \in DOMAIN walks : walks[v].parent = w => walks[w].state # "failed"

\* walk w is a walk into a referenced file, and has failed
failedBranch(w) ==
    w \in DOMAIN walks /\ walks[w].parent # 0 /\ walks[w].state = "failed"

\* the walk that made walk w has completed
madeByCompleted(w) ==
    IF w \in DOMAIN walks /\ walks[w].parent # 0
    THEN walks[walks[w].parent].state = "done"
    ELSE FALSE

\* C17: a walk into a referenced file that fails, for its fetch or its resolution, ends that
\* branch only: the walk that made it does not fail and ends completed, and so does every walk
\* into another referenced file
C17_FailureEndsItsBranchOnly ==
    /\ []failsAlone
    /\ (walks # <<>>) ~> (\A w \in DOMAIN walks : terminated(w))
    /\ \A w \in 1..MaxWalks : failedBranch(w) ~> madeByCompleted(w)

\* the fetch of a failed: the walk into a has failed, the walk into b and the walk from x completed
C17_Witness ==
    /\ Len(walks) = 3
    /\ walks[1].state = "done"
    /\ \E v, w \in 2..3 :
            /\ walks[v].parent = 1 /\ walks[v].state = "failed"
            /\ walks[w].parent = 1 /\ walks[w].state = "done" /\ walks[w].maxDepth = 1

----------------------------------------------------------------------------
(* Several subscribers of one ensure signal                                *)

\* the ensureAllFiles calls, callers that close their subscription, and the fetch outcomes
NextSubs ==
    \/ ensure("ensuredAllFiles")
    \/ \E i \in 1..MaxPipes : unsubscribe(i)
    \/ structureFetched
    \/ structureFailed
    \/ \E uri \in DOMAIN remote : fetched(uri, TRUE)
    \/ \E uri \in DOMAIN remote : fetchFailed(uri)

\* every fetch that was asked for completes or fails
FairSubs ==
    /\ WF_vars(structureFetched \/ structureFailed)
    /\ \A uri \in DOMAIN PipeWorld : WF_vars(fetched(uri, TRUE) \/ fetchFailed(uri))

SpecSubs == InitPipes /\ [][NextSubs]_vars /\ FairSubs

\* a signal somebody is subscribed to is connected, and waits for a fetch that is in flight
connectedWhileSubscribed ==
    \A i \in DOMAIN pipes :
        /\ pipes[i].subs >= 1 => inFlight(pipes[i])
        /\ pipes[i].state = "structure" => structure = "inflight"
        /\ pipes[i].state = "fetching"
                => \E uri \in pipes[i].requested : fetchState(Cur, uri) = "inflight"

\* the subscribers of signal i that stayed have been told of its completion or of its error
told(i) == i \in DOMAIN pipes /\ pipes[i].state \in {"done", "failed"}

\* C19: a subscriber of an in-flight ensure signal that leaves while another one stays changes
\* nothing but the number of subscribers: no fetch is cancelled, the signal stays connected,
\* and those who stay are told of its completion (or error) once the fetches are through
C19_OthersKeepTheSignal ==
    /\ []connectedWhileSubscribed
    /\ [][\A i \in DOMAIN pipes :
            unsubscribe(i)
                => /\ pipes' = [pipes EXCEPT ![i].subs = @ - 1, ![i].left = @ + 1]
                   /\ pipes'[i].subs >= 1 /\ inFlight(pipes'[i])
                   /\ UNCHANGED <<fetches, structure, ensured>>]_vars
    /\ [][\A i \in DOMAIN pipes : (pipes[i].subs >= 1 /\ pipes'[i].subs = 0) => told(i)']_vars
    /\ \A i \in 1..MaxPipes : (i \in DOMAIN pipes /\ pipes[i].subs >= 1) ~> told(i)

\* a signal has completed after one of its two subscribers had left it
C19_Witness ==
    \E i \in DOMAIN pipes : pipes[i].state = "done" /\ pipes[i].left = 1

----------------------------------------------------------------------------
(* Who writes the shared version map *)

\* the step leaves every entry of the version map but that of uri as it is
onlyEntry(uri) == mapDelete(versions', uri) = mapDelete(versions, uri)

\* C21, as stated: the version map changes only in the steps that handle a didOpen, didChange or
\* didClose; no operation of a Session or of its host adds or changes an entry
C21_OnlyIntakeWrites ==
    [][ versions' # versions => \E uri \in ChangeURIs : changeEvent(uri) ]_vars

\* C21, amended: the version map changes only in the steps that handle a didOpen, didChange or
\* didClose, which change the entry of their URI alone, and in the host's getScriptVersion of a
\* URI that has no version (or 0), which stores 1 for that URI alone; no ensure call of a
\* Session, no add, no fetch and no pipeline changes it
C21_IntakeAndSeedWrite ==
    [][ versions' # versions
            => \E uri \in ChangeURIs :
                    /\ onlyEntry(uri)
                    /\ \/ changeEvent(uri)
                       \/ /\ versionAsked(uri)
                          /\ versionOrZero(versions, uri) = 0
                          /\ versions' = mapSet(versions, uri, 1) ]_vars

\* one URI has gone through two change notifications, the other has version 1 without being
\* open, and a Session has a host that stages files
C21_Witness ==
    /\ \E uri, other \in ChangeURIs :
            /\ versionOrZero(versions, uri) = 2
            /\ versionOrZero(versions, other) = 1 /\ other \notin DOMAIN overlay
    /\ \E dir \in SessionDirs :
            dir \in DOMAIN configs["ts"] /\ configs["ts"][dir].host.filePaths # <<>>

----------------------------------------------------------------------------
(* What the completion of a module-structure pipeline does *)

\* ensureModuleStructure and ensureReferencedFiles calls, changes of a document, invalidations
\* and the fetch outcomes
NextReset ==
    \/ ensure("ensuredModuleStructure")
    \/ \E uri \in WalkURIs : didChange(uri, "t", TRUE)
    \/ \E uri \in WalkURIs : ensureReferencedFiles(uri, 1, TRUE)
    \/ invalidateModuleStructure
    \/ structureFetched
    \/ structureFailed
    \/ \E uri \in DOMAIN remote : fetched(uri, TRUE)
    \/ \E uri \in DOMAIN remote : fetchFailed(uri)

SpecReset == InitWalks /\ [][NextReset]_vars

\* every Session of both maps is as reset() leaves it
allReset(cfgs) ==
    \A configType \in Kinds : \A dir \in DOMAIN cfgs[configType] :
        cfgs[configType][dir] = reset(cfgs[configType][dir])

\* the module-structure pipelines that are connected
moduleInFlight ==
    { i \in DOMAIN pipes : pipes[i].scope = "ensuredModuleStructure" /\ inFlight(pipes[i]) }

\* the module-structure pipelines that complete in this step
moduleCompleted ==
    { i \in DOMAIN pipes' :
        /\ pipes'[i].scope = "ensuredModuleStructure" /\ pipes'[i].state = "done"
        /\ (i \in DOMAIN pipes => pipes[i].state # "done") }

\* what the subscribers of pipeline i would be handed on its completion: every Session reset,
\* no reference cached, and the walks that wait for it next to be told
resetWhenObserved ==
    \A i \in moduleInFlight :
        /\ allReset(pipeDone(Cur, i).configs)
        /\ pipeDone(Cur, i).referencedFiles = EmptyMap
        /\ pipeDone(Cur, i).tasks = tasksFor("walkAfterModule", walksOn(Cur, i))

\* the Session at dir is the same Session before and after the step, and was initialized
keptInitialized(configType, dir) ==
    /\ dir \in DOMAIN configs'[configType]
    /\ configs'[configType][dir].configFilePath = configs[configType][dir].configFilePath
    /\ configs[configType][dir].initialized

\* C22: the completion handler of a module-structure pipeline leaves every Session of both maps
\* reset and the cache of references empty before any subscriber hears of the completion; that
\* is the state after the step when no walk is among the subscribers.  A step in which no
\* module-structure pipeline completes (a fetch that ends, a pipeline that fails) resets no
\* Session, and takes no entry out of the cache but that of a resolution that failed
C22_ResetOnCompletionOnly ==
    /\ []resetWhenObserved
    /\ [][ (moduleCompleted # {} /\ walks' = walks)
              => allReset(configs') /\ referencedFiles' = EmptyMap ]_vars
    /\ [][ moduleCompleted = {}
              => /\ \A configType \in Kinds : \A dir \in DOMAIN configs[configType] :
                        keptInitialized(configType, dir) => configs'[configType][dir].initialized
                 /\ \A uri \in DOMAIN referencedFiles :
                        uri \in DOMAIN referencedFiles'
                            \/ resolutions'[referencedFiles[uri]].state = "failed" ]_vars

\* a Session had been initialized and a reference cached by a walk that has ended, and a
\* document was changed; a later module-structure pipeline has completed since: no Session is
\* initialized, nothing is cached
C22_Witness ==
    /\ \E j \in DOMAIN resolutions : resolutions[j].state = "done"
    /\ \E i \in DOMAIN pipes : i >= 2 /\ pipes[i].state = "done"
    /\ versions # EmptyMap
    /\ referencedFiles = EmptyMap
    /\ allReset(configs)

----------------------------------------------------------------------------
(* ensureSourceFile on a Session that is not initialized *)

SourcePath == Pkg \o <<"x.ts">>

\* the ts Sessions whose configuration can be read
readable ==
    { dir \in DOMAIN configs["ts"] :
        configs["ts"][dir].configContent # "undefined"
            \/ ~parseError(fsIn(Cur), configs["ts"][dir].configFilePath) }

\* C23, as stated: ensureSourceFile(path) on a Session that is not initialized initializes it
\* and stages the path
C23_InitializesAndStages ==
    \A dir \in readable :
        LET r == ensureSourceFile(configs["ts"][dir], fsIn(Cur), SourcePath, TRUE)
        IN  ~configs["ts"][dir].initialized
                => ~r.threw /\ r.config.initialized /\ SourcePath \in Range(r.config.host.filePaths)

\* C23, amended: ensureSourceFile(path) does not call ensureConfigFile(): on a Session that is
\* not initialized it raises 'project is uninitialized' and changes nothing; on an initialized
\* Session it returns, with the path staged when a program is available.  didChange calls
\* ensureConfigFile() before it, and leaves an owner whose configuration can be read initialized,
\* with the path staged when a program is available
C23_ThrowsUnlessInitialized ==
    /\ [](\A dir \in DOMAIN configs["ts"], program \in BOOLEAN :
            LET c == configs["ts"][dir]
                r == ensureSourceFile(c, fsIn(Cur), SourcePath, program)
            IN  IF c.initialized
                THEN /\ ~r.threw /\ r.config.initialized
                     /\ program => SourcePath \in Range(r.config.host.filePaths)
                     /\ IsPrefix(c.host.filePaths, r.config.host.filePaths)
                ELSE r = Threw(c))
    /\ [][ \A dir \in readable, program \in BOOLEAN :
              ( /\ configurationFor(SourcePath, "ts") = Found(dir)
                /\ \E text \in Texts : didChange(path2uri(SourcePath), text, program) )
                    => /\ configs'["ts"][dir].initialized
                       /\ program => SourcePath \in Range(configs'["ts"][dir].host.filePaths) ]_vars

\* the Session under the root was made, or reset, when a module-structure pipeline completed,
\* after the document had been changed: it is not initialized
C23_Witness ==
    /\ \E i \in DOMAIN pipes : pipes[i].state = "done"
    /\ path2uri(SourcePath) \in DOMAIN overlay
    /\ Pkg \in DOMAIN configs["ts"]
    /\ ~configs["ts"][Pkg].initialized

----------------------------------------------------------------------------
(* Session.ensureAllFiles on a project whose files import one another *)

StageURIs == {uriOf(Root, "a.ts"), uriOf(Root, "b.ts")}

\* calls of ensureAllFiles and ensureSourceFile on the Session at the root, changes of the
\* documents, and a module-structure pipeline that fetches the workspace and resets the Sessions
NextStage ==
    \/ \E uri \in StageURIs : add(uri, WalkWorld[uri])
    \/ \E uri \in StageURIs : didChange(uri, WalkWorld[uri], TRUE)
    \/ \E program \in BOOLEAN : callEnsureAllFiles("ts", Root, program)
    \/ \E uri \in StageURIs, program \in BOOLEAN :
            callEnsureSourceFile("ts", Root, uri2path(uri), program)
    \/ ensure("ensuredModuleStructure")
    \/ structureFetched
    \/ \E uri \in DOMAIN remote : fetched(uri, TRUE)

SpecStage == InitWalks /\ [][NextStage]_vars

\* what ensureAllFiles() returns on the Session at dir, a program being available
allFilesOf(dir) ==
    ProjectConfiguration_ensureAllFiles(configs["ts"][dir], fsIn(Cur), rootPath, TRUE)

\* C24, as stated: after ensureAllFiles() returned normally, a program being available, every
\* path of the expected file set is in the staged list
C24_EveryExpectedStaged ==
    \A dir \in DOMAIN configs["ts"] :
        ~allFilesOf(dir).threw
            => allFilesOf(dir).config.expectedFilePaths
                    \subseteq Range(allFilesOf(dir).config.host.filePaths)

\* C24, amended: after ensureAllFiles() returned normally, a program being available, every
\* path of the expected file set is in the program: staged, or imported by a staged file, in
\* which case it is not staged; what was staged before stays, the paths staged by the call are
\* the expected ones the program lacked; host.complete and ensuredAllFiles are true; a second
\* ensureAllFiles() changes nothing, the project version included
C24_EveryExpectedInProgram ==
    \A dir \in DOMAIN configs["ts"] :
        LET c == configs["ts"][dir]
            after == allFilesOf(dir).config
        IN  ~allFilesOf(dir).threw
                => /\ \A f \in after.expectedFilePaths : inProgram(after, fsIn(Cur), f)
                   /\ IsPrefix(c.host.filePaths, after.host.filePaths)
                   /\ \A f \in Range(after.host.filePaths) \ Range(c.host.filePaths) :
                            f \in after.expectedFilePaths /\ ~inProgram(c, fsIn(Cur), f)
                   /\ after.host.complete /\ after.ensuredAllFiles
                   /\ \A program \in BOOLEAN :
                        ProjectConfiguration_ensureAllFiles(after, fsIn(Cur), rootPath, program)
                            = Returned(after)

\* ensureAllFiles() has returned on the Session at the root: a.ts is staged, b.ts, which a.ts
\* imports, is expected and is not staged
C24_Witness ==
    /\ Root \in DOMAIN configs["ts"]
    /\ configs["ts"][Root].ensuredAllFiles /\ configs["ts"][Root].host.complete
    /\ configs["ts"][Root].expectedFilePaths = {Root \o <<"a.ts">>, Root \o <<"b.ts">>}
    /\ Range(configs["ts"][Root].host.filePaths) = {Root \o <<"a.ts">>}

----------------------------------------------------------------------------
(* didClose and didSave *)

\* the project version of a Session, that of a new host when it has none
projectVersionOf(config) == IF config.host.present THEN config.host.projectVersion ELSE 1

\* every Session but the one at dir in the map of configType is left as it is
restUnchanged(configType, dir) ==
    \A k \in Kinds :
        /\ DOMAIN configs'[k] = DOMAIN configs[k]
        /\ \A d \in DOMAIN configs[k] : (k # configType \/ d # dir) => configs'[k][d] = configs[k][d]

\* the owner of a document that is closed, if it has one, keeps its staged files and has its
\* project version raised by one
closedAsStated(uri) ==
    LET configType == getConfigurationType(uri2path(uri))
        owner == configurationFor(uri2path(uri), configType)
    IN  /\ versions' = mapSet(versions, uri, versionOrZero(versions, uri) + 1)
        /\ owner.found
                => LET before == configs[configType][owner.dir]
                       after  == configs'[configType][owner.dir]
                   IN  /\ after.host.filePaths = before.host.filePaths
                       /\ after.host.projectVersion = projectVersionOf(before) + 1

\* C25, as stated: didClose(uri) with an owning Session leaves the Session's staged files as
\* they are and raises the version of the URI and the project version of the owner by one
C25_CloseBumpsBoth ==
    [][ \A uri \in ChangeURIs : didClose(uri) => closedAsStated(uri) ]_vars

\* C25, amended: didClose(uri) raises the version of the URI by one; an owner that is
\* initialized, or whose configuration can be read, keeps its staged files (none for a Session
\* that had no host) and has its project version raised by exactly one (to 2 when it had no
\* host); an owner that is not initialized and whose configuration file cannot be parsed is
\* left as it is, didClose failing after the version of the URI was raised; no other Session
\* changes.  didSave changes no version and no Session
C25_CloseBumpsUnlessUnparsable ==
    /\ [][ \A uri \in ChangeURIs :
              didClose(uri)
                => LET configType == getConfigurationType(uri2path(uri))
                       owner == configurationFor(uri2path(uri), configType)
                   IN  /\ versions' = mapSet(versions, uri, versionOrZero(versions, uri) + 1)
                       /\ ~owner.found => configs' = configs
                       /\ owner.found
                            => /\ restUnchanged(configType, owner.dir)
                               /\ IF unparsable(configs[configType][owner.dir])
                                  THEN configs' = configs
                                  ELSE closedAsStated(uri)
                                       /\ configs'[configType][owner.dir].initialized ]_vars
    /\ [][ \A uri \in ChangeURIs : didSave(uri) => UNCHANGED <<versions, configs, files>> ]_vars

\* a document was opened and closed: its version is 2, it is staged on its owner, whose project
\* version has gone up with the staging and with both events
C25_Witness ==
    /\ \E uri \in ChangeURIs : versionOrZero(versions, uri) = 2 /\ uri \notin DOMAIN overlay
    /\ Pkg \in DOMAIN configs["ts"]
    /\ configs["ts"][Pkg].host.filePaths = <<SourcePath>>
    /\ configs["ts"][Pkg].host.projectVersion = 4

----------------------------------------------------------------------------
(* getChildConfigurations *)

\* the characters of the directory names of the workspace below
letters(name) ==
    CASE name = "" -> <<>>
      [] name = "root" -> <<"r", "o", "o", "t">>
      [] name = "pkg" -> <<"p", "k", "g">>
      [] name = "pkg2" -> <<"p", "k", "g", "2">>
      [] name = "sub" -> <<"s", "u", "b">>

\* a path as the string the code holds: its segments joined with slashes
RECURSIVE text(_)
text(path) ==
    IF Len(path) = 0 THEN <<>>
    ELSE IF Len(path) = 1 THEN letters(path[1])
    ELSE text(Front(path)) \o <<"/">> \o letters(Last(path))

\* String.prototype.startsWith
startsWith(str, searchString) == IsPrefix(text(searchString), text(str))

\* the Sessions returned, each as its kind and its key; those of the ts map come first
getChildConfigurations(uri) ==
    LET pathPrefix == uri2path(uri)
    IN  UNION { { <<configType, folderPath>> :
                    folderPath \in { f \in DOMAIN configs[configType] : startsWith(f, pathPrefix) } }
                : configType \in Kinds }

Pkg2 == Root \o <<"pkg2">>

ChildDirs == {Root, Pkg, Pkg \o <<"sub">>, Pkg2}

ChildURIs == { uriOf(dir, name) : dir \in ChildDirs, name \in ConfigFileNames }

\* the directories asked about
AskedDirs == ChildDirs

NextChildren == \E uri \in ChildURIs : add(uri, "{}")

SpecChildren == InitWith({Root}, {EmptyMap}) /\ [][NextChildren]_vars

\* the Sessions whose directory is dir or lies below it
containedIn(dir) ==
    { <<configType, folderPath>> \in Kinds \X (DOMAIN configs["ts"] \cup DOMAIN configs["js"]) :
        folderPath \in DOMAIN configs[configType] /\ IsPrefix(dir, folderPath) }

\* C26: getChildConfigurations(dir) returns exactly the Sessions, of both kinds, whose
\* directory is dir or one of its descendant directories, and none in a sibling directory
\* whose name begins with the same characters
C26_ChildrenOnly ==
    \A dir \in AskedDirs : getChildConfigurations(path2uri(dir)) = containedIn(dir)

----------------------------------------------------------------------------
(* A workspace without configuration files *)

\* no tsconfig.json or jsconfig.json with content outside node_modules
NoConfigWorld ==
    [ u \in { uriOf(Root, "y.ts"), uriOf(Pkg, "w.js"), uriOf(Pkg, "tsconfig.json"),
              uriOf(Module, "tsconfig.json"), uriOf(Pkg, "jsconfig.json.bak"),
              uriOf(Pkg \o <<"tsconfig.json">>, "x.ts") } |->
        IF u \in {uriOf(Module, "tsconfig.json"), uriOf(Pkg, "jsconfig.json.bak")} THEN "{}"
        ELSE IF u = uriOf(Pkg \o <<"tsconfig.json">>, "x.ts") THEN "t" ELSE "" ]

NextNoConfig ==
    \/ ensure("ensuredAllFiles")
    \/ structureFetched
    \/ \E uri \in DOMAIN NoConfigWorld : fetched(uri, TRUE)
    \/ \E uri \in DOMAIN NoConfigWorld : add(uri, NoConfigWorld[uri])
    \/ didChange(uriOf(Pkg, "w.js"), "t", TRUE)

SpecNoConfig == InitWith({Root}, {NoConfigWorld}) /\ [][NextNoConfig]_vars

\* the paths routed: the files of the workspace and paths the workspace does not hold
NoConfigPaths ==
    { uri2path(u) : u \in DOMAIN NoConfigWorld } \cup { Pkg \o <<"sub", "x.ts">>, <<"", "other", "z.ts">> }

\* C27: where no tsconfig.json or jsconfig.json with content outside node_modules is added,
\* both fallback Sessions stay the entries at the trimmed root and every path is routed to
\* the fallback of its kind
C27_FallbacksStay ==
    /\ \A configType \in Kinds : hasFallback(configs, configType)
    /\ \A filePath \in NoConfigPaths :
            configurationFor(filePath, getConfigurationType(filePath)) = Found(trimmedRoot)

----------------------------------------------------------------------------
(* A configuration file directly in the workspace root *)

RootConfig == Root \o <<"tsconfig.json">>

\* the Session the add subscription makes for the tsconfig.json of the root
rootSession == ProjectConfiguration(trimmedRoot, RootConfig, "undefined")

\* C28, as stated: after the add of a non-empty tsconfig.json that lies directly in the
\* workspace root, the ts map has no entry at the trimmed root
C28_RootEntryAbsent ==
    [][ add(path2uri(RootConfig), "{}") => trimmedRoot \notin DOMAIN configs'["ts"] ]_vars

\* C28, amended: the add of a non-empty tsconfig.json that lies directly in the workspace root
\* puts the new Session at the trimmed root of the ts map, in the place of the fallback, and
\* changes nothing else; the key is never absent afterwards and never holds the fallback again
C28_RootEntryReplaced ==
    /\ [][ add(path2uri(RootConfig), "{}")
            => /\ configs' = [configs EXCEPT !["ts"] = mapSet(@, trimmedRoot, rootSession)]
               /\ ~hasFallback(configs', "ts") ]_vars
    /\ [][ (trimmedRoot \in DOMAIN configs["ts"] /\ ~hasFallback(configs, "ts"))
            => (trimmedRoot \in DOMAIN configs'["ts"] /\ ~hasFallback(configs', "ts")) ]_vars

\* the tsconfig.json of the root was added while the ts fallback was still there, the root
\* being given with a trailing slash: the key without the slash holds the new Session
C28_Witness ==
    /\ rootPath # trimmedRoot
    /\ readFile(fsIn(Cur), RootConfig) = "{}"
    /\ DOMAIN configs["ts"] = {trimmedRoot}
    /\ configs["ts"][trimmedRoot] = rootSession
    /\ hasFallback(configs, "js")

----------------------------------------------------------------------------
(* What the flags of a Session say about its host and its service *)

\* getHost() and getService() return on this Session
hostAndService(config) == config.host.present /\ config.service

\* C29: in every Session, initialized holds exactly when the host and the service exist,
\* ensuredBasicFiles implies initialized, and ensuredAllFiles implies initialized and a
\* complete host; so after ensureBasicFiles() or ensureAllFiles() has returned, by its early
\* return or not, getHost() and getService() return
C29_FlagsImplyInitialized ==
    \A configType \in Kinds : \A dir \in DOMAIN configs[configType] :
        LET config == configs[configType][dir]
        IN  /\ config.initialized = config.host.present
            /\ config.initialized = config.service
            /\ config.ensuredBasicFiles => config.initialized
            /\ config.ensuredAllFiles => config.initialized /\ config.host.complete
            /\ \A program \in BOOLEAN :
                    LET basic == ensureBasicFiles(config, fsIn(Cur), rootPath, program)
                        all   == ProjectConfiguration_ensureAllFiles(config, fsIn(Cur), rootPath, program)
                    IN  /\ ~basic.threw => hostAndService(basic.config)
                        /\ ~all.threw => hostAndService(all.config)

\* one Session has both flags set, so that both calls return early on it, while another has
\* neither host nor service; the module structure has been asked for
C29_Witness ==
    /\ \E dir \in DOMAIN configs["ts"] :
            configs["ts"][dir].ensuredBasicFiles /\ configs["ts"][dir].ensuredAllFiles
    /\ \E dir \in DOMAIN configs["js"] : ~configs["js"][dir].initialized
    /\ ensured["ensuredModuleStructure"] # 0

----------------------------------------------------------------------------
(* A pipeline or a resolution that goes on after its slot or cache entry was cleared *)

\* pipeline i is in flight and the slot of its scope holds k, built after it and in flight too
supersededBy(i, k) ==
    /\ i \in DOMAIN pipes /\ inFlight(pipes[i])
    /\ k = ensured[pipes[i].scope] /\ k # 0 /\ k # i
    /\ inFlight(pipes[k])

\* resolution j is in flight and the cache holds k for its URI, built after it and in flight too
resolutionSupersededBy(j, k) ==
    /\ j \in DOMAIN resolutions /\ resolutions[j].state = "fetching"
    /\ resolutions[j].uri \in DOMAIN referencedFiles
    /\ k = referencedFiles[resolutions[j].uri] /\ k # j
    /\ resolutions[k].state = "fetching"

\* C30, as stated: were a superseded pipeline or resolution to fail now, the slot or the cache
\* entry would hold the newer signal still when its subscribers are told, and were a superseded
\* module-structure pipeline to complete now, no Session would be reset
C30_SupersededIsInert ==
    /\ \A i, k \in DOMAIN pipes :
          supersededBy(i, k) =>
            /\ pipeFail(Cur, i).ensured[pipes[i].scope] = k
            /\ pipes[i].scope = "ensuredModuleStructure" => pipeDone(Cur, i).configs = configs
    /\ \A j, k \in DOMAIN resolutions :
          resolutionSupersededBy(j, k) =>
            /\ resolutions[j].uri \in DOMAIN resolutionFail(Cur, j).referencedFiles
            /\ resolutionFail(Cur, j).referencedFiles[resolutions[j].uri] = k

\* C30, amended: a superseded pipeline or resolution leaves the newer one itself as it is, but
\* its handlers act on the slot and on the Sessions as those of any other: were it to fail now,
\* the slot of its scope, or the cache entry of its URI, would be empty when its subscribers are
\* told, though the newer signal is in flight; were a superseded module-structure pipeline to
\* complete now, every Session would be reset and the cache of references emptied, the slots
\* staying as they are
supersededActs ==
    /\ \A i, k \in DOMAIN pipes :
          supersededBy(i, k) =>
            /\ pipeFail(Cur, i).ensured = [ensured EXCEPT ![pipes[i].scope] = 0]
            /\ pipeFail(Cur, i).pipes[k] = pipes[k]
            /\ pipeDone(Cur, i).pipes[k] = pipes[k]
            /\ pipeDone(Cur, i).ensured = ensured
            /\ pipes[i].scope = "ensuredModuleStructure"
                  => /\ pipeDone(Cur, i).configs = resetAll(configs)
                     /\ pipeDone(Cur, i).referencedFiles = EmptyMap
            /\ pipes[i].scope # "ensuredModuleStructure"
                  => /\ pipeDone(Cur, i).configs = configs
                     /\ pipeDone(Cur, i).referencedFiles = referencedFiles
    /\ \A j, k \in DOMAIN resolutions :
          resolutionSupersededBy(j, k) =>
            /\ resolutionFail(Cur, j).referencedFiles = mapDelete(referencedFiles, resolutions[j].uri)
            /\ resolutionFail(Cur, j).resolutions[k] = resolutions[k]

\* and so it is in the steps in which one fails or completes: the step in which a superseded
\* pipeline fails ends with the slot of its scope empty, the one in which a superseded
\* resolution fails with no cache entry for its URI, and the one in which a superseded
\* module-structure pipeline completes, no walk going on from there, with every Session reset
C30_SupersededStillActs ==
    /\ []supersededActs
    /\ [][ \A i, k \in DOMAIN pipes :
              (supersededBy(i, k) /\ pipes'[i].state = "failed")
                  => ensured'[pipes[i].scope] = 0 ]_vars
    /\ [][ \A j, k \in DOMAIN resolutions :
              (resolutionSupersededBy(j, k) /\ resolutions'[j].state = "failed")
                  => resolutions[j].uri \notin DOMAIN referencedFiles' ]_vars
    /\ [][ \A i, k \in DOMAIN pipes :
              ( /\ supersededBy(i, k) /\ pipes[i].scope = "ensuredModuleStructure"
                /\ pipes'[i].state = "done" /\ walks' = walks )
                  => allReset(configs') /\ referencedFiles' = EmptyMap ]_vars

\* a module-structure pipeline was superseded while in flight and the newer one is in flight
\* too, with a Session that is initialized
C30_Witness ==
    /\ \E i, k \in DOMAIN pipes : supersededBy(i, k) /\ pipes[i].scope = "ensuredModuleStructure"
    /\ \E configType \in Kinds : \E dir \in DOMAIN configs[configType] :
            configs[configType][dir].initialized

----------------------------------------------------------------------------
(* Paths staged more than once *)

distinct(s) == \A m, n \in DOMAIN s : s[m] = s[n] => m = n

----------------------------------------------------------------------------
(* How far ensureReferencedFiles fetches *)

\* x.ts imports a.ts, which imports b.ts; package.json belongs to the module structure
DepthWorld ==
    [ u \in { uriOf(Root, "x.ts"), uriOf(Root, "a.ts"), uriOf(Root, "b.ts"),
              uriOf(Root, "package.json") } |->
        CASE u = uriOf(Root, "x.ts") -> "import a"
          [] u = uriOf(Root, "a.ts") -> "import b"
          [] u = uriOf(Root, "package.json") -> "{}"
          [] OTHER -> "" ]

DepthURIs == {uriOf(Root, "x.ts"), uriOf(Root, "a.ts"), uriOf(Root, "b.ts")}

CallDepths == {0, 1, 2, 3}

\* one top-level ensureReferencedFiles call and the fetch outcomes
NextDepth ==
    \/ /\ walks = <<>>
       /\ \E uri \in DepthURIs, maxDepth \in CallDepths : ensureReferencedFiles(uri, maxDepth, TRUE)
    \/ structureFetched
    \/ structureFailed
    \/ \E uri \in DOMAIN remote : fetched(uri, TRUE)
    \/ \E uri \in DOMAIN remote : fetchFailed(uri)

SpecDepth == InitWith(RootPaths, {DepthWorld}) /\ [][NextDepth]_vars

\* the files uri references, read off the workspace
referencedBy(uri) ==
    Range(resolveImports(fsOf(remote, EmptyMap), Front(toUnixPath(uri2path(uri))),
                         importedFiles(remote[uri])))

\* the URIs at a reference distance from uri that is less than d
RECURSIVE nearerThan(_, _)
nearerThan(uri, d) ==
    IF d = 0 THEN {}
    ELSE {uri} \cup UNION { nearerThan(r, d - 1) : r \in referencedBy(uri) }

\* the URIs the call that was made may fetch by the claim
withinDepth == IF walks = <<>> THEN {} ELSE nearerThan(walks[1].uri, walks[1].maxDepth)

\* the files the ensureModuleStructure pipeline asks for
moduleStructureFiles == { u \in DOMAIN remote : scopeFilter("ensuredModuleStructure", u) }

\* C32, as stated: ensureReferencedFiles(u, d) asks the updater only for URIs at a reference
\* distance from u that is less than d
C32_FetchesOnlyWithinDepth == DOMAIN fetches \subseteq withinDepth

\* C32, amended: apart from the files of the module structure, which the pipeline it waits for
\* asks for whatever d is, ensureReferencedFiles(u, d) asks the updater only for URIs at a
\* distance less than d: resolveReferencedFiles is called for those alone, and a file found at
\* distance d is walked with depth 0, which resolves and fetches nothing
C32_FetchesWithinDepthAndModule ==
    /\ DOMAIN fetches \subseteq withinDepth \cup moduleStructureFiles
    /\ \A j \in DOMAIN resolutions : resolutions[j].uri \in withinDepth
    /\ DOMAIN referencedFiles \subseteq withinDepth
    /\ \A w \in DOMAIN walks :
            /\ walks[w].maxDepth = 0 => walks[w].state \in {"new", "module", "done", "failed"}
            /\ walks[w].uri \in nearerThan(walks[1].uri, walks[1].maxDepth + 1)

\* ensureReferencedFiles(x.ts, 2) is through: x.ts and a.ts were fetched, b.ts, at distance 2,
\* was walked with depth 0 and never asked for
C32_Witness ==
    /\ Len(walks) = 3
    /\ walks[1].uri = uriOf(Root, "x.ts") /\ walks[1].maxDepth = 2 /\ walks[1].state = "done"
    /\ fetchState(Cur, uriOf(Root, "x.ts")) = "done"
    /\ fetchState(Cur, uriOf(Root, "a.ts")) = "done"
    /\ \E w \in DOMAIN walks :
            walks[w].uri = uriOf(Root, "b.ts") /\ walks[w].maxDepth = 0 /\ walks[w].state = "done"
    /\ uriOf(Root, "b.ts") \notin DOMAIN fetches

----------------------------------------------------------------------------
(* The whole server: every operation, on every workspace of the model *)

Worlds == {EmptyMap, SessionWorld, PipeWorld, WalkWorld}

Init == InitWith(RootPaths, Worlds)

Next == NextRouter \/ NextSession \/ NextErrors \/ NextPipes \/ NextWalks \/ NextSubs

Spec == Init /\ [][Next]_vars

====
